---------------------------- MODULE Spec2Model ----------------------------
(***************************************************************************)
(* A model of CIDL's remote dataset access layer:                          *)
(*   backend.py        session state, listing, upload, delete              *)
(*   cidl/loaders.py   byte cache, metadata cache, dataset loading         *)
(*   truth_matcher.py  truth loading and truth/simulation reconciliation   *)
(*                                                                         *)
(* Every public function is one action: Python runs a call to completion   *)
(* before the next one starts.  A function of the source is an operator    *)
(* that takes the process state as a record w (the module globals, the     *)
(* remote store, the local file system and the log of the remote requests  *)
(* of the running call) and yields [w, exc, val]: the state it leaves, the *)
(* exception it raises (NoExc when it returns) and the value it returns.   *)
(* What the environment decides (the credentials in the environment        *)
(* variables, the outcome of a request) is an argument drawn by the action.*)
(* The one function that runs threads, upload_directory, is in addition    *)
(* modelled step by step (SpecUpload).                                     *)
(***************************************************************************)
EXTENDS Integers, Sequences, FiniteSets, TLC

VARIABLES
    _S3,              \* backend._S3: the boto3 resource, or None
    _BUCKET,          \* backend._BUCKET: the Bucket object, or None
    _ACTIVE_ENDPOINT, \* backend._ACTIVE_ENDPOINT
    _READ_ONLY,       \* backend._READ_ONLY
    _CACHE,           \* loaders._CACHE: S3 key -> raw bytes
    _META_CACHE,      \* loaders._META_CACHE: source -> parsed JSON object
    store,            \* the objects of the remote bucket: key -> bytes or Absent
    localfs,          \* the local files: path -> bytes or Absent
    established,      \* history: how the Bucket object in use was obtained
    ret,              \* the call that just ended: name, arguments, outcome, request
                      \* log and emitted warnings; NoCall once the caller has it
    prev,             \* history: the _download_file call, if it was one, that
                      \* ended before the current one
    batch             \* the upload_directory call in progress in another thread:
                      \* its position, its thread pool and its futures

vars == << _S3, _BUCKET, _ACTIVE_ENDPOINT, _READ_ONLY, _CACHE, _META_CACHE,
           store, localfs, established, ret, prev, batch >>

\* Python's None and True.  Every value that may be None is a record, so that
\* it can be compared with None.
None == [ none |-> TRUE ]
True == [ bool |-> TRUE ]
Absent == "Absent"

(***************************************************************************)
(* Exceptions.  code is the store's error code of a ClientError (or the    *)
(* message variant of another error); text is "Not Found" when str(e)      *)
(* contains those words.                                                   *)
(***************************************************************************)
Exc(type, code, text) == [type |-> type, code |-> code, text |-> text]
NoExc == Exc("none", "", "")
ClientError(code, text) == Exc("ClientError", code, text)
\* An exception whose message is a structured value.
ExcOf(type, msg) == [type |-> type, code |-> "", text |-> "", msg |-> msg]

Return(w, val) == [w |-> w, exc |-> NoExc, val |-> val]
Raise(w, e) == [w |-> w, exc |-> e, val |-> None]
Raised(r) == r.exc # NoExc

\* F(v), with v evaluated once: the value of a statement "x = v" that the
\* statements after it read.
Bind(v, F(_)) == CHOOSE r \in { F(x) : x \in { v } } : TRUE

\* One remote request (or connect_s3 call) of the running call.
Event(ev, key) == [ev |-> ev, key |-> key]
Logged(w, ev, key) == [w EXCEPT !.log = Append(@, Event(ev, key))]

(***************************************************************************)
(* The key space.  Keys are the strings the source builds.                 *)
(***************************************************************************)
DEFAULT_SIM_PREFIX == "acic22/simulations"
DEFAULT_TRUTH_PREFIX == "acic22/truth"
DEFAULT_ACIC22_METADATA == "acic22/metadata/acic22_metadata.json"
DEFAULT_ACIC22_DGP_INFO == "acic22/metadata/acic22_dgp_info.json"

\* f"{int(index):04d}": at least four digits, zero padded.
Pad4(i) ==
    IF i < 10 THEN "000" \o ToString(i)
    ELSE IF i < 100 THEN "00" \o ToString(i)
    ELSE IF i < 1000 THEN "0" \o ToString(i)
    ELSE ToString(i)

\* The prefixes of the model carry no leading or trailing "/", so that
\* str(prefix).strip("/") leaves them as they are.
_truth_key(index, prefix) == prefix \o "/" \o ("truth_" \o Pad4(index) \o ".parquet")

SimFilename(index) == "sim_" \o Pad4(index) \o ".parquet"

\* The indices of the truth objects and the simulations of the model.
TruthIdx == {5, 6, 7, 9}
SimIdx == {1, 2}

\* The files of the local directory that upload_directory scans, in sorted order.
LocalDir == "data"
LocalNames == << "notes.txt", SimFilename(1) >>
LocalPath(name) == LocalDir \o "/" \o name

TruthKeys == { _truth_key(i, DEFAULT_TRUTH_PREFIX) : i \in TruthIdx }
SimKeys == { DEFAULT_SIM_PREFIX \o "/" \o SimFilename(i) : i \in SimIdx }
NotesKey == DEFAULT_SIM_PREFIX \o "/" \o "notes.txt"
MetaKeys == { DEFAULT_ACIC22_METADATA, DEFAULT_ACIC22_DGP_INFO }
Keys == TruthKeys \cup SimKeys \cup MetaKeys \cup { NotesKey }

\* The keys in the order in which the store lists them (ascending byte order).
KeyOrder ==
    << DEFAULT_ACIC22_DGP_INFO, DEFAULT_ACIC22_METADATA, NotesKey,
       DEFAULT_SIM_PREFIX \o "/" \o SimFilename(1),
       DEFAULT_SIM_PREFIX \o "/" \o SimFilename(2),
       _truth_key(5, DEFAULT_TRUTH_PREFIX), _truth_key(6, DEFAULT_TRUTH_PREFIX),
       _truth_key(7, DEFAULT_TRUTH_PREFIX), _truth_key(9, DEFAULT_TRUTH_PREFIX) >>

\* Whether a key starts with a prefix: what may follow the prefixes that the
\* calls of the model pass ("", "acic22", the two default prefixes, "nothing").
Remainders ==
    { "", "/metadata/acic22_metadata.json", "/metadata/acic22_dgp_info.json",
      "/notes.txt", "/simulations/notes.txt" }
    \cup { "/" \o SimFilename(i) : i \in SimIdx }
    \cup { "/simulations/" \o SimFilename(i) : i \in SimIdx }
    \cup { "/" \o ("truth_" \o Pad4(i) \o ".parquet") : i \in TruthIdx }
    \cup { "/truth/" \o ("truth_" \o Pad4(i) \o ".parquet") : i \in TruthIdx }
    \cup Keys
StartsWith(key, prefix) == \E r \in Remainders : key = prefix \o r

\* Whether a file name matches a glob pattern "*<suffix>".
Stems == { "notes", "sim_0001", "notes.txt", "sim_0001.parquet" }
GlobMatch(name, pattern) ==
    \E stem \in Stems, suffix \in { "", ".txt", ".parquet", ".csv", ".json" } :
        /\ pattern = "*" \o suffix
        /\ name = stem \o suffix

\* The payloads.  Frames are parquet payloads; the JSON documents follow below.
Frames == { "frame_a", "frame_b" }

(***************************************************************************)
(* What the environment decides.                                           *)
(***************************************************************************)
\* The buckets that exist at the store; store holds the objects of the one.
Buckets == { "cidl-test" }

\* connect_s3: the two environment variables, whether boto3 builds the
\* resource and the Bucket object, and how the store answers the probe.
ProbeCodes == { "InvalidAccessKeyId", "SignatureDoesNotMatch", "AccessDenied",
                "NoSuchBucket", "InternalError" }
ConnectEnv(access, secret, create, probe) ==
    [ access |-> access, secret |-> secret, create |-> create, probe |-> probe ]
\* The environment in which a connect_s3 call succeeds.
GoodEnv == ConnectEnv(TRUE, TRUE, "ok", "ok")
\* One environment per way in which connect_s3 can end: a later step is
\* reached only when the earlier ones succeed.
ConnectEnvs ==
    { ConnectEnv(FALSE, FALSE, "ok", "ok"), ConnectEnv(FALSE, TRUE, "ok", "ok"),
      ConnectEnv(TRUE, FALSE, "ok", "ok"),
      ConnectEnv(TRUE, TRUE, "resource_fails", "ok"),
      ConnectEnv(TRUE, TRUE, "bucket_fails", "ok") }
    \cup { ConnectEnv(TRUE, TRUE, "ok", probe) :
             probe \in { "ok", "not_a_client_error" } \cup ProbeCodes }

\* A request to the store: the errors it may end with for reasons the model
\* does not hold (permissions, the network), per target of the running call.
EndpointConnectionError == Exc("EndpointConnectionError", "", "")
MaxFaults == 1
FaultSets(targets, excs) ==
    { f \in UNION { [T -> excs] : T \in SUBSET targets } :
        Cardinality(DOMAIN f) <= MaxFaults }
NoFaults == [t \in {} |-> NoExc]
FaultOf(faults, target) == IF target \in DOMAIN faults THEN faults[target] ELSE NoExc

\* The error of a request the store answers: the bucket of the session does
\* not exist, or the environment fails the request.
RequestError(w, faults, target) ==
    IF w._BUCKET.name \notin Buckets THEN ClientError("NoSuchBucket", "")
    ELSE FaultOf(faults, target)

(***************************************************************************)
(* backend.py                                                              *)
(***************************************************************************)
ENDPOINTS ==
    [ k \in { "primary", "site-1", "site-2", "site-3" } |->
        CASE k = "primary" -> "https://s3-uhh.lzs.uni-hamburg.de:443"
          [] k = "site-1" -> "https://s3-uhh-s1.lzs.uni-hamburg.de:443"
          [] k = "site-2" -> "https://s3-uhh-s2.lzs.uni-hamburg.de:443"
          [] k = "site-3" -> "https://s3-uhh-s3.lzs.uni-hamburg.de:443" ]

RuntimeError(msg) == Exc("RuntimeError", msg, "")

\* The probe: what _BUCKET.load() answers.
ProbeAnswer(bucket_name, env) ==
    IF bucket_name \notin Buckets /\ env.probe = "ok" THEN "NoSuchBucket" ELSE env.probe

\* The RuntimeError the bodies of the two except clauses of the probe raise
\* for an answer.
ClassifyProbe(answer) ==
    CASE answer = "InvalidAccessKeyId" -> RuntimeError("Access Key is invalid")
      [] answer = "SignatureDoesNotMatch" -> RuntimeError("Secret Key is invalid")
      [] answer = "AccessDenied" -> RuntimeError("Access denied to bucket")
      [] answer = "NoSuchBucket" -> RuntimeError("Bucket does not exist")
      [] answer = "not_a_client_error" -> RuntimeError("Unknown error")
      [] OTHER -> RuntimeError("S3 connection failed")

\* The exception of the probe.  The first except clause names
\* boto3.exceptions.ClientError, and boto3.exceptions has no such attribute
\* (the class is botocore.exceptions.ClientError, which backend.py does not
\* import): when load() raises, Python evaluates that expression to match the
\* exception, the lookup raises AttributeError, and an exception raised while
\* matching leaves the try statement without reaching the clauses after it.
ProbeError(bucket_name, env) ==
    IF ProbeAnswer(bucket_name, env) = "ok" THEN NoExc
    ELSE Exc("AttributeError", "module 'boto3.exceptions' has no attribute 'ClientError'", "")

\* The arguments of a connect_s3 call, as the request log shows them.
ConnectArgs(bucket_name, endpoint_key, read_only) ==
    bucket_name \o "," \o endpoint_key \o ","
        \o (IF read_only THEN "read_only=True" ELSE "read_only=False")

\* connect_s3 that looks up the endpoint key before it reads the credentials.
connect_s3_endpoint_first(w, bucket_name, endpoint_key, read_only, env) ==
    Bind([Logged(w, "connect_s3", ConnectArgs(bucket_name, endpoint_key, read_only))
            EXCEPT !._READ_ONLY = read_only], LAMBDA w1 :
    IF endpoint_key \notin DOMAIN ENDPOINTS
    THEN Raise(w1, Exc("ValueError", "Invalid endpoint", ""))
    ELSE IF ~env.access /\ ~env.secret
    THEN Raise(w1, RuntimeError("ACCESS_KEY and SECRET_KEY are missing"))
    ELSE IF ~env.access THEN Raise(w1, RuntimeError("ACCESS_KEY is missing"))
    ELSE IF ~env.secret THEN Raise(w1, RuntimeError("SECRET_KEY is missing"))
    ELSE
    LET url == ENDPOINTS[endpoint_key]
        w2 == [w1 EXCEPT !._ACTIVE_ENDPOINT = [ url |-> url ]]
        w3 == [w2 EXCEPT !._S3 = [ endpoint_url |-> url ]]
        probe == ProbeError(bucket_name, env)
    IN
    IF env.create = "resource_fails" THEN Raise(w2, RuntimeError("S3 resource creation failed"))
    ELSE IF env.create = "bucket_fails" THEN Raise(w3, RuntimeError("S3 resource creation failed"))
    ELSE
    Bind([Logged(w3, "probe", bucket_name)
            EXCEPT !._BUCKET = [ name |-> bucket_name, endpoint_url |-> url ],
                   !.established = "unprobed"], LAMBDA w4 :
    IF probe # NoExc THEN Raise(w4, probe)
    ELSE Return([w4 EXCEPT !.established = IF read_only THEN "read_only" ELSE "write"],
                <<w4._S3, w4._BUCKET, w4._ACTIVE_ENDPOINT>>)))

connect_s3(w, bucket_name, endpoint_key, read_only, env) ==
    Bind([Logged(w, "connect_s3", ConnectArgs(bucket_name, endpoint_key, read_only))
            EXCEPT !._READ_ONLY = read_only], LAMBDA w1 :
    IF ~env.access /\ ~env.secret
    THEN Raise(w1, RuntimeError("ACCESS_KEY and SECRET_KEY are missing"))
    ELSE IF ~env.access THEN Raise(w1, RuntimeError("ACCESS_KEY is missing"))
    ELSE IF ~env.secret THEN Raise(w1, RuntimeError("SECRET_KEY is missing"))
    ELSE IF endpoint_key \notin DOMAIN ENDPOINTS
    THEN Raise(w1, Exc("ValueError", "Invalid endpoint", ""))
    ELSE
    LET url == ENDPOINTS[endpoint_key]
        w2 == [w1 EXCEPT !._ACTIVE_ENDPOINT = [ url |-> url ]]
        w3 == [w2 EXCEPT !._S3 = [ endpoint_url |-> url ]]
        probe == ProbeError(bucket_name, env)
    IN
    IF env.create = "resource_fails" THEN Raise(w2, RuntimeError("S3 resource creation failed"))
    ELSE IF env.create = "bucket_fails" THEN Raise(w3, RuntimeError("S3 resource creation failed"))
    ELSE
    Bind([Logged(w3, "probe", bucket_name)
            EXCEPT !._BUCKET = [ name |-> bucket_name, endpoint_url |-> url ],
                   !.established = "unprobed"], LAMBDA w4 :
    IF probe # NoExc THEN Raise(w4, probe)
    ELSE Return([w4 EXCEPT !.established = IF read_only THEN "read_only" ELSE "write"],
                <<w4._S3, w4._BUCKET, w4._ACTIVE_ENDPOINT>>)))

\* _ensure_connected that connects for writing: the default of read_only lost.
_ensure_connected_for_writing(w, env) ==
    IF w._S3 = None \/ w._BUCKET = None
    THEN connect_s3(w, "cidl-test", "primary", FALSE, env)
    ELSE Return(w, None)

_ensure_connected(w, env) ==
    IF w._S3 = None \/ w._BUCKET = None
    THEN connect_s3(w, "cidl-test", "primary", TRUE, env)
    ELSE Return(w, None)

_check_write_permission(w) ==
    IF w._READ_ONLY THEN Raise(w, Exc("PermissionError", "read-only mode", ""))
    ELSE Return(w, None)

\* _ensure_connected() and then _check_write_permission(), as every mutating
\* function of backend.py starts.
Gate(w, env) ==
    Bind(_ensure_connected(w, env), LAMBDA c :
    IF Raised(c) THEN c ELSE _check_write_permission(c.w))

\* _BUCKET.objects.filter(Prefix=prefix): one listing request.
RECURSIVE SelectKeys(_, _, _)
SelectKeys(objects, prefix, i) ==
    IF i > Len(KeyOrder) THEN << >>
    ELSE IF objects[KeyOrder[i]] # Absent /\ StartsWith(KeyOrder[i], prefix)
    THEN << KeyOrder[i] >> \o SelectKeys(objects, prefix, i + 1)
    ELSE SelectKeys(objects, prefix, i + 1)

ListRequest(w, prefix, faults) ==
    Bind(Logged(w, "list", prefix), LAMBDA w1 :
    Bind(RequestError(w1, faults, "list"), LAMBDA e :
    IF e # NoExc THEN Raise(w1, e) ELSE Return(w1, SelectKeys(w1.store, prefix, 1))))

Range(seq) == { seq[i] : i \in DOMAIN seq }
Take(seq, n) == SubSeq(seq, 1, IF n < Len(seq) THEN n ELSE Len(seq))

list_objects(w, prefix, limit, env, faults) ==
    Bind(_ensure_connected(w, env), LAMBDA c :
    IF Raised(c) THEN c
    ELSE Bind(ListRequest(c.w, prefix, faults), LAMBDA l :
         IF Raised(l) THEN l ELSE Return(l.w, Take(l.val, limit))))

\* obj.size of a payload, in bytes.
SizeOf(bytes) == IF bytes = "frame_a" THEN 1024 ELSE 2048

RECURSIVE SumSizes(_, _, _)
SumSizes(objects, keys, i) ==
    IF i > Len(keys) THEN 0
    ELSE SizeOf(objects[keys[i]]) + SumSizes(objects, keys, i + 1)

bucket_summary(w, env, faults) ==
    Bind(_ensure_connected(w, env), LAMBDA c :
    IF Raised(c) THEN c
    ELSE Bind(ListRequest(c.w, "", faults), LAMBDA l :
         IF Raised(l) THEN l
         ELSE Return(l.w, [ bucket |-> l.w._BUCKET.name,
                            endpoint |-> l.w._ACTIVE_ENDPOINT,
                            read_only |-> l.w._READ_ONLY,
                            object_count |-> Len(l.val),
                            total_size |-> SumSizes(l.w.store, l.val, 1) ])))

\* The try block of upload_file: stat of the file and the transfer.  Every
\* exception is returned in the triple.
Transfer(p, name, key_prefix, faults) ==
    LET key == key_prefix \o "/" \o name
        path == LocalPath(name)
    IN
    IF p.localfs[path] = Absent
    THEN Return(p, <<name, Exc("FileNotFoundError", path, ""), None>>)
    ELSE
    Bind(Logged(p, "upload", key), LAMBDA w1 :
    Bind(RequestError(w1, faults, key), LAMBDA e :
    IF e # NoExc THEN Return(w1, <<name, e, None>>)
    ELSE Return([w1 EXCEPT !.store[key] = w1.localfs[path]],
                <<name, True, "s3://" \o w1._BUCKET.name \o "/" \o key>>)))

\* upload_file without its try/except: the exception of the transfer is raised.
upload_file_raising(w, name, key_prefix, env, faults) ==
    Bind(Gate(w, env), LAMBDA g :
    IF Raised(g) THEN g
    ELSE
    Bind(g.w, LAMBDA p :
    LET key == key_prefix \o "/" \o name
        path == LocalPath(name)
    IN
    IF p.localfs[path] = Absent
    THEN Raise(p, Exc("FileNotFoundError", path, ""))
    ELSE
    Bind(Logged(p, "upload", key), LAMBDA w1 :
    Bind(RequestError(w1, faults, key), LAMBDA e :
    IF e # NoExc THEN Raise(w1, e)
    ELSE Return([w1 EXCEPT !.store[key] = w1.localfs[path]],
                <<name, True, "s3://" \o w1._BUCKET.name \o "/" \o key>>)))))

\* upload_file returns (file name, True, s3_path) or (file name, exception, None).
upload_file(w, name, key_prefix, env, faults) ==
    Bind(Gate(w, env), LAMBDA g :
    IF Raised(g) THEN g ELSE Transfer(g.w, name, key_prefix, faults))

\* path.glob(ext) for each pattern in turn, then sorted(files).
RECURSIVE GlobAll(_, _, _)
GlobAll(fs, extensions, i) ==
    IF i > Len(LocalNames) THEN << >>
    ELSE LET n == LocalNames[i]
             hits == { j \in DOMAIN extensions : GlobMatch(n, extensions[j]) }
             here == [ j \in 1..(IF fs[LocalPath(n)] = Absent THEN 0 ELSE Cardinality(hits))
                         |-> n ]
         IN  here \o GlobAll(fs, extensions, i + 1)

DefaultExtensions == << "*.parquet", "*.csv", "*.json" >>

\* The uploads of upload_directory in the order of to_upload, as one thread
\* runs them: the state after them, the failed list, and the exception of the
\* first upload_file call that raised, which ex.map raises in the caller.
RECURSIVE UploadEach(_, _, _, _, _, _, _)
UploadEach(w, files, i, key_prefix, env, faults, failed) ==
    IF i > Len(files) THEN Return(w, failed)
    ELSE Bind(upload_file(w, files[i], key_prefix, env, faults), LAMBDA r :
         IF Raised(r) THEN r
         ELSE Bind(IF r.val[2] = True THEN failed
                   ELSE Append(failed, <<r.val[1], r.val[2]>>), LAMBDA failed1 :
              UploadEach(r.w, files, i + 1, key_prefix, env, faults, failed1)))

\* upload_directory up to the thread pool: the gate, the files of the
\* patterns, the listing of the prefix, and the files whose key it lacks.
ToUpload(w, key_prefix, extensions, env, faults) ==
    Bind(Gate(w, env), LAMBDA g :
    IF Raised(g) THEN g
    ELSE
    Bind(g.w, LAMBDA p :
    Bind(GlobAll(p.localfs, IF extensions = None THEN DefaultExtensions
                            ELSE extensions.list, 1), LAMBDA files :
    Bind(ListRequest(p, key_prefix, faults), LAMBDA l :
    IF Raised(l) THEN l
    ELSE Return(l.w, SelectSeq(files, LAMBDA f : (key_prefix \o "/" \o f) \notin Range(l.val)))))))

upload_directory(w, key_prefix, extensions, env, faults) ==
    Bind(ToUpload(w, key_prefix, extensions, env, faults), LAMBDA t :
    IF Raised(t) THEN t
    ELSE UploadEach(t.w, t.val, 1, key_prefix, env, faults, << >>))

\* delete_object without its try/except: the exception of the request is raised.
delete_object_raising(w, key, env, faults) ==
    Bind(Gate(w, env), LAMBDA g :
    IF Raised(g) THEN g
    ELSE
    Bind(g.w, LAMBDA p :
    Bind(Logged(p, "delete", key), LAMBDA w1 :
    Bind(RequestError(w1, faults, key), LAMBDA e :
    IF e # NoExc THEN Raise(w1, e)
    ELSE Return([w1 EXCEPT !.store[key] = Absent], True)))))

\* delete_object and delete_prefix return True, or the exception of the request.
delete_object(w, key, env, faults) ==
    Bind(Gate(w, env), LAMBDA g :
    IF Raised(g) THEN g
    ELSE
    Bind(g.w, LAMBDA p :
    Bind(Logged(p, "delete", key), LAMBDA w1 :
    Bind(RequestError(w1, faults, key), LAMBDA e :
    IF e # NoExc THEN Return(w1, e)
    ELSE Return([w1 EXCEPT !.store[key] = Absent], True)))))

RECURSIVE DeleteEach(_, _, _, _)
DeleteEach(w, keys, i, faults) ==
    IF i > Len(keys) THEN Return(w, True)
    ELSE Bind(Logged(w, "delete", keys[i]), LAMBDA w1 :
         Bind(RequestError(w1, faults, keys[i]), LAMBDA e :
         IF e # NoExc THEN Return(w1, e)
         ELSE Bind([w1 EXCEPT !.store[keys[i]] = Absent], LAMBDA w2 :
              DeleteEach(w2, keys, i + 1, faults))))

\* delete_prefix that leaves the first listed object in place.
delete_prefix_after_first(w, key_prefix, env, faults) ==
    Bind(Gate(w, env), LAMBDA g :
    IF Raised(g) THEN g
    ELSE
    Bind(g.w, LAMBDA p :
    Bind(ListRequest(p, key_prefix, faults), LAMBDA l :
    IF Raised(l) THEN Return(l.w, l.exc)
    ELSE DeleteEach(l.w, l.val, 2, faults))))

delete_prefix(w, key_prefix, env, faults) ==
    Bind(Gate(w, env), LAMBDA g :
    IF Raised(g) THEN g
    ELSE
    Bind(g.w, LAMBDA p :
    Bind(ListRequest(p, key_prefix, faults), LAMBDA l :
    IF Raised(l) THEN Return(l.w, l.exc)
    ELSE DeleteEach(l.w, l.val, 1, faults))))

(***************************************************************************)
(* cidl/loaders.py                                                         *)
(***************************************************************************)
\* The payloads that are JSON documents, and json.loads of each.  A JSON
\* array is [list |-> <<...>>], a JSON object a record.
JsonPayloads == { "meta_1", "meta_2", "meta_3", "meta_4", "dgp_1", "dgp_2", "dgp_3" }
JsonLoads(bytes) ==
    CASE bytes = "meta_1" ->
           [ list |-> << [ index |-> 1, filename |-> SimFilename(1), dgp |-> 10 ],
                         [ index |-> 2, filename |-> SimFilename(2), dgp |-> 20 ] >> ]
      [] bytes = "meta_2" ->
           [ list |-> << [ index |-> 1, filename |-> SimFilename(1), dgp |-> 20 ] >> ]
      [] bytes = "meta_3" ->
           [ list |-> << [ index |-> 1, dgp |-> 10 ],
                         [ index |-> 2, filename |-> SimFilename(1) ] >> ]
      [] bytes = "meta_4" ->
           [ list |-> << [ filename |-> SimFilename(1), dgp |-> 10 ] >> ]
      [] bytes = "dgp_3" ->
           [ dgps |-> [ list |-> << [ difficulty_tier |-> "easy" ] >> ] ]
      [] bytes = "dgp_1" ->
           [ dgps |-> [ list |-> << [ dgp |-> 10, difficulty_tier |-> "easy" ],
                                    [ dgp |-> 20, difficulty_tier |-> "hard" ] >> ] ]
      [] bytes = "dgp_2" ->
           [ dgps |-> [ list |-> << [ dgp |-> 10, difficulty_tier |-> "hard" ],
                                    [ dgp |-> 20 ] >> ] ]
IsList(obj) == DOMAIN obj = { "list" }

\* name.endswith(suffix), for the names and keys of the model.
NameStems ==
    { "notes", "sim_0001", "sim_0002" }
    \cup { DEFAULT_SIM_PREFIX \o "/" \o n : n \in { "notes", "sim_0001", "sim_0002" } }
    \cup { DEFAULT_TRUTH_PREFIX \o "/" \o ("truth_" \o Pad4(i)) : i \in TruthIdx }
    \cup { "acic22/metadata/acic22_metadata", "acic22/metadata/acic22_dgp_info" }
EndsWith(name, suffix) == \E stem \in NameStems : name = stem \o suffix

\* A parsed table: the DataFrame of a payload.
DataFrame(bytes) == [ frame |-> bytes ]

\* _CACHE[key] = value, and _META_CACHE[source] = value.
Put(cache, key, value) ==
    [ k \in DOMAIN cache \cup { key } |-> IF k = key THEN value ELSE cache[k] ]

\* _download_file that does not look into _CACHE before it downloads.
_download_file_refetch(w, key, use_cache, env, faults) ==
    Bind(_ensure_connected(w, env), LAMBDA c :
    IF Raised(c) THEN c
    ELSE
    Bind(Logged(c.w, "download", key), LAMBDA w1 :
    Bind(RequestError(w1, faults, key), LAMBDA e :
    IF e # NoExc THEN Raise(w1, e)
    ELSE IF w1.store[key] = Absent THEN Raise(w1, ClientError("404", "Not Found"))
    ELSE IF use_cache
    THEN Return([w1 EXCEPT !._CACHE = Put(@, key, w1.store[key])], w1.store[key])
    ELSE Return(w1, w1.store[key]))))

\* _download_file that stores the bytes in _CACHE whatever use_cache is.
_download_file_stores_always(w, key, use_cache, env, faults) ==
    IF use_cache /\ key \in DOMAIN w._CACHE THEN Return(w, w._CACHE[key])
    ELSE
    Bind(_ensure_connected(w, env), LAMBDA c :
    IF Raised(c) THEN c
    ELSE
    Bind(Logged(c.w, "download", key), LAMBDA w1 :
    Bind(RequestError(w1, faults, key), LAMBDA e :
    IF e # NoExc THEN Raise(w1, e)
    ELSE IF w1.store[key] = Absent THEN Raise(w1, ClientError("404", "Not Found"))
    ELSE Return([w1 EXCEPT !._CACHE = Put(@, key, w1.store[key])], w1.store[key]))))

_download_file(w, key, use_cache, env, faults) ==
    IF use_cache /\ key \in DOMAIN w._CACHE THEN Return(w, w._CACHE[key])
    ELSE
    Bind(_ensure_connected(w, env), LAMBDA c :
    IF Raised(c) THEN c
    ELSE
    Bind(Logged(c.w, "download", key), LAMBDA w1 :
    Bind(RequestError(w1, faults, key), LAMBDA e :
    IF e # NoExc THEN Raise(w1, e)
    ELSE IF w1.store[key] = Absent THEN Raise(w1, ClientError("404", "Not Found"))
    ELSE IF use_cache
    THEN Return([w1 EXCEPT !._CACHE = Put(@, key, w1.store[key])], w1.store[key])
    ELSE Return(w1, w1.store[key]))))

_read_file_bytes(w, data, filename) ==
    IF EndsWith(filename, ".parquet")
    THEN IF data \in Frames THEN Return(w, DataFrame(data))
         ELSE Raise(w, Exc("ArrowInvalid", "not a parquet file", ""))
    ELSE IF EndsWith(filename, ".csv")
    THEN IF data \in Frames THEN Raise(w, Exc("ParserError", "not a csv file", ""))
         ELSE Return(w, DataFrame(data))
    ELSE IF EndsWith(filename, ".json")
    THEN IF data \in JsonPayloads THEN Return(w, DataFrame(data))
         ELSE Raise(w, Exc("ValueError", "not a json file", ""))
    ELSE Raise(w, Exc("ValueError", "Unsupported file type", ""))

\* _read_json_source that reads the source again when it is already in
\* _META_CACHE, and stores what it read.
_read_json_source_reread(w, source, use_cache, env, faults) ==
    Bind(IF source \in DOMAIN w.localfs /\ w.localfs[source] # Absent
         THEN Return(w, w.localfs[source])
         ELSE _download_file(w, source, use_cache, env, faults), LAMBDA d :
    IF Raised(d) THEN d
    ELSE IF d.val \notin JsonPayloads THEN Raise(d.w, Exc("JSONDecodeError", source, ""))
    ELSE Bind(JsonLoads(d.val), LAMBDA obj :
         IF use_cache
         THEN Return([d.w EXCEPT !._META_CACHE = Put(@, source, obj)], obj)
         ELSE Return(d.w, obj)))

_read_json_source(w, source, use_cache, env, faults) ==
    IF use_cache /\ source \in DOMAIN w._META_CACHE THEN Return(w, w._META_CACHE[source])
    ELSE
    Bind(IF source \in DOMAIN w.localfs /\ w.localfs[source] # Absent
         THEN Return(w, w.localfs[source])
         ELSE _download_file(w, source, use_cache, env, faults), LAMBDA d :
    IF Raised(d) THEN d
    ELSE IF d.val \notin JsonPayloads THEN Raise(d.w, Exc("JSONDecodeError", source, ""))
    ELSE Bind(JsonLoads(d.val), LAMBDA obj :
         IF use_cache
         THEN Return([d.w EXCEPT !._META_CACHE = Put(@, source, obj)], obj)
         ELSE Return(d.w, obj)))

\* The records of a list keyed by int(rec[field]); a later record replaces an
\* earlier one of the same key.
RECURSIVE IndexBy(_, _, _, _)
IndexBy(items, field, i, acc) ==
    IF i > Len(items) THEN acc
    ELSE Bind(Put(acc, items[i][field], items[i]), LAMBDA acc1 :
         IndexBy(items, field, i + 1, acc1))

\* _load_acic22_metadata that also refuses a record without filename or dgp.
_load_acic22_metadata_strict(w, source, use_cache, env, faults) ==
    Bind(_read_json_source(w, source, use_cache, env, faults), LAMBDA j :
    IF Raised(j) THEN j
    ELSE IF ~IsList(j.val) THEN Raise(j.w, Exc("ValueError", "metadata JSON must be a list", ""))
    ELSE IF \E i \in DOMAIN j.val.list : ~({ "index", "filename", "dgp" } \subseteq DOMAIN j.val.list[i])
    THEN Raise(j.w, Exc("ValueError", "metadata record missing 'index'", ""))
    ELSE Return(j.w, IndexBy(j.val.list, "index", 1, << >>)))

_load_acic22_metadata(w, source, use_cache, env, faults) ==
    Bind(_read_json_source(w, source, use_cache, env, faults), LAMBDA j :
    IF Raised(j) THEN j
    ELSE IF ~IsList(j.val) THEN Raise(j.w, Exc("ValueError", "metadata JSON must be a list", ""))
    ELSE IF \E i \in DOMAIN j.val.list : "index" \notin DOMAIN j.val.list[i]
    THEN Raise(j.w, Exc("ValueError", "metadata record missing 'index'", ""))
    ELSE Return(j.w, IndexBy(j.val.list, "index", 1, << >>)))

\* _load_dgp_info that takes a document it refuses out of _META_CACHE.
_load_dgp_info_evicting(w, source, use_cache, env, faults) ==
    Bind(_read_json_source(w, source, use_cache, env, faults), LAMBDA j :
    IF Raised(j) THEN j
    ELSE
    Bind([j.w EXCEPT !._META_CACHE = [ k \in DOMAIN @ \ { source } |-> @[k] ]], LAMBDA w1 :
    IF IsList(j.val) \/ "dgps" \notin DOMAIN j.val
    THEN Raise(w1, Exc("ValueError", "DGP info JSON must be a dict containing 'dgps'", ""))
    ELSE IF ~IsList(j.val.dgps)
    THEN Raise(w1, Exc("ValueError", "field 'dgps' must be a list", ""))
    ELSE IF \E i \in DOMAIN j.val.dgps.list : "dgp" \notin DOMAIN j.val.dgps.list[i]
    THEN Raise(w1, Exc("ValueError", "DGP record missing 'dgp'", ""))
    ELSE Return(j.w, IndexBy(j.val.dgps.list, "dgp", 1, << >>))))

_load_dgp_info(w, source, use_cache, env, faults) ==
    Bind(_read_json_source(w, source, use_cache, env, faults), LAMBDA j :
    IF Raised(j) THEN j
    ELSE IF IsList(j.val) \/ "dgps" \notin DOMAIN j.val
    THEN Raise(j.w, Exc("ValueError", "DGP info JSON must be a dict containing 'dgps'", ""))
    ELSE IF ~IsList(j.val.dgps)
    THEN Raise(j.w, Exc("ValueError", "field 'dgps' must be a list", ""))
    ELSE IF \E i \in DOMAIN j.val.dgps.list : "dgp" \notin DOMAIN j.val.dgps.list[i]
    THEN Raise(j.w, Exc("ValueError", "DGP record missing 'dgp'", ""))
    ELSE Return(j.w, IndexBy(j.val.dgps.list, "dgp", 1, << >>)))

load_file(w, key, use_cache, env, faults) ==
    Bind(_download_file(w, key, use_cache, env, faults), LAMBDA d :
    IF Raised(d) THEN d ELSE _read_file_bytes(d.w, d.val, key))

load_simulation(w, index, prefix, use_cache, env, faults) ==
    Bind(_ensure_connected(w, env), LAMBDA c :
    IF Raised(c) THEN c
    ELSE Bind(_download_file(c.w, prefix \o "/" \o SimFilename(index), use_cache, env,
                             faults), LAMBDA d :
         IF Raised(d) THEN d ELSE _read_file_bytes(d.w, d.val, SimFilename(index))))

(***************************************************************************)
(* truth_matcher.py                                                        *)
(***************************************************************************)
\* An index argument is None, or [kind, items]: a "list", a "mapping" (items
\* are its keys, in insertion order) or an "int" (items is the one number).
\* An item is a Python int [int |-> n] or a Python str [str |-> s].
IntItem(n) == [ int |-> n ]
StrItem(s) == [ str |-> s ]
ListOf(items) == [ kind |-> "list", items |-> items ]
MappingOf(items) == [ kind |-> "mapping", items |-> items ]
IsMapping(x) == x # None /\ x.kind = "mapping"

\* int(x): the number of an int, the number a str spells, or no number.
IntLiterals == { "5", "6", " 9 " }
ParseInt(s) == CASE s = "5" -> 5 [] s = "6" -> 6 [] s = " 9 " -> 9
ConvertsToInt(x) == "int" \in DOMAIN x \/ x.str \in IntLiterals
int(x) == IF "int" \in DOMAIN x THEN x.int ELSE ParseInt(x.str)

\* sorted(S) of a set of integers.
RECURSIVE SortedSeq(_)
SortedSeq(S) ==
    IF S = {} THEN << >>
    ELSE LET least == CHOOSE x \in S : \A y \in S : x <= y
         IN  << least >> \o SortedSeq(S \ { least })

\* _normalize_indices without set() and sorted(): the numbers in input order.
_normalize_indices_in_order(w, indices) ==
    IF indices = None THEN Return(w, << >>)
    ELSE IF \E i \in DOMAIN indices.items : ~ConvertsToInt(indices.items[i])
    THEN Raise(w, Exc("TypeError", "cannot be converted to int", ""))
    ELSE Return(w, [ i \in DOMAIN indices.items |-> int(indices.items[i]) ])

_normalize_indices(w, indices) ==
    IF indices = None THEN Return(w, << >>)
    ELSE IF \E i \in DOMAIN indices.items : ~ConvertsToInt(indices.items[i])
    THEN Raise(w, Exc("TypeError", "cannot be converted to int", ""))
    ELSE Return(w, SortedSeq({ int(indices.items[i]) : i \in DOMAIN indices.items }))

\* The error codes of the model carry no surrounding blanks, so that strip()
\* leaves them as they are.
\* _is_missing_s3_object_error that takes every ClientError for a missing object.
_is_missing_s3_object_error_any(e) == TRUE

_is_missing_s3_object_error(e) ==
    e.code \in { "404", "NoSuchKey", "NotFound" } \/ e.text = "Not Found"

\* What the terminal decides: whether stdin is a tty, and the line input() reads.
Terminal(isatty, line) == [ isatty |-> isatty, line |-> line ]

\* _can_prompt that takes every terminal for interactive.
_can_prompt_always(terminal) == TRUE

_can_prompt(terminal) == terminal.isatty

\* answer.strip().lower(), for the lines of the model.
StripLower(line) ==
    CASE line = " Y " -> "y" [] line = "YES" -> "yes" [] OTHER -> line

VALID_ON_MISSING == { "warn", "error", "ignore" }
VALID_ON_MISMATCH == { "warn", "error", "ignore" }

\* warnings.warn(msg, UserWarning)
Warn(w, msg) == [w EXCEPT !.warned = Append(@, msg)]

\* The message: its fixed first line as msg, and the lines that follow it.
_format_mismatch_message(sim_indices, truth_loaded, missing_for_sims, extra_truth, missing_files) ==
    [ msg |-> "Truth/Simulation mismatch detected.",
      parts |->
        << [ line |-> "Simulation indices", of |-> sim_indices ],
           [ line |-> "Truth indices loaded", of |-> truth_loaded ] >>
        \o (IF missing_for_sims # << >>
            THEN << [ line |-> "Missing truth for simulation indices",
                      of |-> missing_for_sims ] >> ELSE << >>)
        \o (IF extra_truth # << >>
            THEN << [ line |-> "Extra truth indices (not in simulations)",
                      of |-> extra_truth ] >> ELSE << >>)
        \o (IF missing_files # << >>
            THEN << [ line |-> "Truth files not found in storage",
                      of |-> missing_files ] >> ELSE << >>) ]

NonInteractiveMessage ==
    [ msg |-> "Prompt requested, but environment is non-interactive; proceeding with warning only." ]

\* _handle_mismatch that treats "error" as "warn".
_handle_mismatch_error_warns(w, msg, on_mismatch, prompt, warnings_out, terminal) ==
    IF on_mismatch \notin VALID_ON_MISMATCH
    THEN Raise(w, Exc("ValueError", "on_mismatch must be one of", ""))
    ELSE IF on_mismatch = "ignore" THEN Return(w, warnings_out)
    ELSE
    Bind(Warn(w, msg), LAMBDA w1 :
    IF ~prompt THEN Return(w1, Append(warnings_out, msg))
    ELSE IF _can_prompt(terminal)
    THEN IF StripLower(terminal.line) \notin { "y", "yes" }
         THEN Raise([w1 EXCEPT !.prompted = TRUE],
                    Exc("RuntimeError", "Aborted by user due to truth/simulation mismatch.", ""))
         ELSE Return([w1 EXCEPT !.prompted = TRUE], Append(warnings_out, msg))
    ELSE Return(Warn(w1, NonInteractiveMessage),
                Append(Append(warnings_out, msg), NonInteractiveMessage)))

\* _handle_mismatch and _handle_missing_file return None; val is warnings_out
\* as the call leaves it.
_handle_mismatch(w, msg, on_mismatch, prompt, warnings_out, terminal) ==
    IF on_mismatch \notin VALID_ON_MISMATCH
    THEN Raise(w, Exc("ValueError", "on_mismatch must be one of", ""))
    ELSE IF on_mismatch = "ignore" THEN Return(w, warnings_out)
    ELSE IF on_mismatch = "error" THEN Raise(w, ExcOf("ValueError", msg))
    ELSE
    Bind(Warn(w, msg), LAMBDA w1 :
    IF ~prompt THEN Return(w1, Append(warnings_out, msg))
    ELSE IF _can_prompt(terminal)
    THEN IF StripLower(terminal.line) \notin { "y", "yes" }
         THEN Raise([w1 EXCEPT !.prompted = TRUE],
                    Exc("RuntimeError", "Aborted by user due to truth/simulation mismatch.", ""))
         ELSE Return([w1 EXCEPT !.prompted = TRUE], Append(warnings_out, msg))
    ELSE Return(Warn(w1, NonInteractiveMessage),
                Append(Append(warnings_out, msg), NonInteractiveMessage)))

MissingFileMessage(idx, key) == [ msg |-> "Truth file not found for index", idx |-> idx, key |-> key ]

\* _handle_missing_file that warns where the policy is "error".
_handle_missing_file_lenient(w, idx, key, on_missing, warnings_out) ==
    IF on_missing \notin VALID_ON_MISSING
    THEN Raise(w, Exc("ValueError", "on_missing must be one of", ""))
    ELSE IF on_missing = "ignore" THEN Return(w, warnings_out)
    ELSE Return(Warn(w, MissingFileMessage(idx, key)),
                Append(warnings_out, MissingFileMessage(idx, key)))

_handle_missing_file(w, idx, key, on_missing, warnings_out) ==
    IF on_missing \notin VALID_ON_MISSING
    THEN Raise(w, Exc("ValueError", "on_missing must be one of", ""))
    ELSE IF on_missing = "ignore" THEN Return(w, warnings_out)
    ELSE IF on_missing = "error"
    THEN Raise(w, ExcOf("FileNotFoundError", MissingFileMessage(idx, key)))
    ELSE Return(Warn(w, MissingFileMessage(idx, key)),
                Append(warnings_out, MissingFileMessage(idx, key)))

TruthBundle(simulation_indices, truth_indices_requested, truth, missing_truth_files, missing_for_simulations, extra_truth, warnings) ==
    [ simulation_indices |-> simulation_indices,
      truth_indices_requested |-> truth_indices_requested,
      truth |-> truth,
      missing_truth_files |-> missing_truth_files,
      missing_for_simulations |-> missing_for_simulations,
      extra_truth |-> extra_truth,
      warnings |-> warnings ]

is_full_match(self) == Len(self.missing_for_simulations) = 0 /\ Len(self.extra_truth) = 0

\* truth_indices_loaded that answers with the indices requested.
truth_indices_loaded_requested(self) == self.truth_indices_requested

truth_indices_loaded(self) == SortedSeq(DOMAIN self.truth)

\* sorted(seq) of a list of integers.
RECURSIVE sorted(_)
sorted(seq) ==
    IF seq = << >> THEN << >>
    ELSE LET i == CHOOSE j \in DOMAIN seq : \A k \in DOMAIN seq : seq[j] <= seq[k]
         IN  << seq[i] >> \o sorted(SubSeq(seq, 1, i - 1) \o SubSeq(seq, i + 1, Len(seq)))

\* A list of ints as an index argument.
IntList(seq) == ListOf([ i \in DOMAIN seq |-> IntItem(seq[i]) ])

\* The loop of load_truths from idxs[i] on; acc is [truth, missing_files,
\* warnings_out] as the iterations before left them.
RECURSIVE LoadEach(_, _, _, _, _, _, _, _, _)
LoadEach(w, idxs, i, prefix, use_cache, on_missing, env, faults, acc) ==
    IF i > Len(idxs) THEN Return(w, acc)
    ELSE
    Bind(_truth_key(idxs[i], prefix), LAMBDA key :
    Bind(load_file(w, key, use_cache, env, faults), LAMBDA r :
    IF ~Raised(r)
    THEN Bind([acc EXCEPT !.truth = Put(@, idxs[i], r.val)], LAMBDA acc1 :
         LoadEach(r.w, idxs, i + 1, prefix, use_cache, on_missing, env, faults, acc1))
    ELSE IF \/ r.exc.type = "ClientError" /\ _is_missing_s3_object_error(r.exc)
            \/ r.exc.type = "FileNotFoundError"
    THEN Bind(_handle_missing_file(r.w, idxs[i], key, on_missing, acc.warnings_out),
              LAMBDA h :
         IF Raised(h) THEN h
         ELSE Bind([acc EXCEPT !.missing_files = Append(@, idxs[i]),
                               !.warnings_out = h.val], LAMBDA acc1 :
              LoadEach(h.w, idxs, i + 1, prefix, use_cache, on_missing, env, faults, acc1)))
    ELSE r))

\* load_truths that takes the keys of a mapping as its indices.
load_truths_accepts_mapping(w, indices, prefix, use_cache, on_missing, env, faults) ==
    Bind(_normalize_indices(w, indices), LAMBDA n :
    IF Raised(n) THEN n
    ELSE
    Bind(LoadEach(n.w, n.val, 1, prefix, use_cache, on_missing, env, faults,
                  [ truth |-> << >>, missing_files |-> << >>, warnings_out |-> << >> ]),
         LAMBDA l :
    IF Raised(l) THEN l
    ELSE Return(l.w, TruthBundle(n.val, n.val, l.val.truth, sorted(l.val.missing_files),
                                 SortedSeq(Range(n.val) \ DOMAIN l.val.truth), << >>,
                                 l.val.warnings_out))))

\* load_truths that validates on_missing before it loads anything.
load_truths_validating_first(w, indices, prefix, use_cache, on_missing, env, faults) ==
    IF on_missing \notin VALID_ON_MISSING
    THEN Raise(w, Exc("ValueError", "on_missing must be one of", ""))
    ELSE IF IsMapping(indices)
    THEN Raise(w, Exc("TypeError", "load_truths() expects an iterable of indices", ""))
    ELSE
    Bind(_normalize_indices(w, indices), LAMBDA n :
    IF Raised(n) THEN n
    ELSE
    Bind(LoadEach(n.w, n.val, 1, prefix, use_cache, on_missing, env, faults,
                  [ truth |-> << >>, missing_files |-> << >>, warnings_out |-> << >> ]),
         LAMBDA l :
    IF Raised(l) THEN l
    ELSE Return(l.w, TruthBundle(n.val, n.val, l.val.truth, sorted(l.val.missing_files),
                                 SortedSeq(Range(n.val) \ DOMAIN l.val.truth), << >>,
                                 l.val.warnings_out))))

\* load_truths that lists no missing file under on_missing="ignore".
load_truths_ignore_unlisted(w, indices, prefix, use_cache, on_missing, env, faults) ==
    IF IsMapping(indices)
    THEN Raise(w, Exc("TypeError", "load_truths() expects an iterable of indices", ""))
    ELSE
    Bind(_normalize_indices(w, indices), LAMBDA n :
    IF Raised(n) THEN n
    ELSE
    Bind(LoadEach(n.w, n.val, 1, prefix, use_cache, on_missing, env, faults,
                  [ truth |-> << >>, missing_files |-> << >>, warnings_out |-> << >> ]),
         LAMBDA l :
    IF Raised(l) THEN l
    ELSE Return(l.w, TruthBundle(n.val, n.val, l.val.truth,
                                 IF on_missing = "ignore" THEN << >>
                                 ELSE sorted(l.val.missing_files),
                                 SortedSeq(Range(n.val) \ DOMAIN l.val.truth), << >>,
                                 l.val.warnings_out))))

load_truths(w, indices, prefix, use_cache, on_missing, env, faults) ==
    IF IsMapping(indices)
    THEN Raise(w, Exc("TypeError", "load_truths() expects an iterable of indices", ""))
    ELSE
    Bind(_normalize_indices(w, indices), LAMBDA n :
    IF Raised(n) THEN n
    ELSE
    Bind(LoadEach(n.w, n.val, 1, prefix, use_cache, on_missing, env, faults,
                  [ truth |-> << >>, missing_files |-> << >>, warnings_out |-> << >> ]),
         LAMBDA l :
    IF Raised(l) THEN l
    ELSE Return(l.w, TruthBundle(n.val, n.val, l.val.truth, sorted(l.val.missing_files),
                                 SortedSeq(Range(n.val) \ DOMAIN l.val.truth), << >>,
                                 l.val.warnings_out))))

\* truth_for_simulations that applies the mismatch policy in automatic mode too.
truth_for_simulations_always_compares(w, simulations, truth_indices, prefix, use_cache, on_missing, on_mismatch, prompt, env, faults, terminal) ==
    IF ~IsMapping(simulations)
    THEN Raise(w, Exc("TypeError", "truth_for_simulations() expects a Mapping/dict", ""))
    ELSE
    Bind(_normalize_indices(w, ListOf(simulations.items)), LAMBDA s :
    IF Raised(s) THEN s
    ELSE
    Bind(IF truth_indices = None THEN s ELSE _normalize_indices(s.w, truth_indices),
         LAMBDA t :
    IF Raised(t) THEN t
    ELSE
    Bind(load_truths(t.w, IntList(t.val), prefix, use_cache, on_missing, env, faults),
         LAMBDA b :
    IF Raised(b) THEN b
    ELSE
    LET truth_loaded == truth_indices_loaded(b.val)
        missing_for_sims == SortedSeq(Range(s.val) \ Range(truth_loaded))
        extra_truth == SortedSeq(Range(truth_loaded) \ Range(s.val))
    IN
    Bind(IF missing_for_sims # << >> \/ extra_truth # << >>
         THEN _handle_mismatch(b.w,
                  _format_mismatch_message(s.val, truth_loaded, missing_for_sims,
                                           extra_truth, b.val.missing_truth_files),
                  on_mismatch, prompt, b.val.warnings, terminal)
         ELSE Return(b.w, b.val.warnings), LAMBDA m :
    IF Raised(m) THEN m
    ELSE Return(m.w, TruthBundle(s.val, t.val, b.val.truth, b.val.missing_truth_files,
                                 missing_for_sims, extra_truth, m.val))))))

\* truth_for_simulations that applies the mismatch policy only when the
\* requested truth indices differ from the simulation keys.
truth_for_simulations_keys_as_automatic(w, simulations, truth_indices, prefix, use_cache, on_missing, on_mismatch, prompt, env, faults, terminal) ==
    IF ~IsMapping(simulations)
    THEN Raise(w, Exc("TypeError", "truth_for_simulations() expects a Mapping/dict", ""))
    ELSE
    Bind(_normalize_indices(w, ListOf(simulations.items)), LAMBDA s :
    IF Raised(s) THEN s
    ELSE
    Bind(IF truth_indices = None THEN s ELSE _normalize_indices(s.w, truth_indices),
         LAMBDA t :
    IF Raised(t) THEN t
    ELSE
    Bind(load_truths(t.w, IntList(t.val), prefix, use_cache, on_missing, env, faults),
         LAMBDA b :
    IF Raised(b) THEN b
    ELSE
    LET truth_loaded == truth_indices_loaded(b.val)
        missing_for_sims == SortedSeq(Range(s.val) \ Range(truth_loaded))
        extra_truth == SortedSeq(Range(truth_loaded) \ Range(s.val))
    IN
    Bind(IF truth_indices # None /\ t.val # s.val
            /\ (missing_for_sims # << >> \/ extra_truth # << >>)
         THEN _handle_mismatch(b.w,
                  _format_mismatch_message(s.val, truth_loaded, missing_for_sims,
                                           extra_truth, b.val.missing_truth_files),
                  on_mismatch, prompt, b.val.warnings, terminal)
         ELSE Return(b.w, b.val.warnings), LAMBDA m :
    IF Raised(m) THEN m
    ELSE Return(m.w, TruthBundle(s.val, t.val, b.val.truth, b.val.missing_truth_files,
                                 missing_for_sims, extra_truth, m.val))))))

\* truth_for_simulations that applies on_mismatch to the requested indices
\* before it loads them.
truth_for_simulations_mismatch_first(w, simulations, truth_indices, prefix, use_cache, on_missing, on_mismatch, prompt, env, faults, terminal) ==
    IF ~IsMapping(simulations)
    THEN Raise(w, Exc("TypeError", "truth_for_simulations() expects a Mapping/dict", ""))
    ELSE
    Bind(_normalize_indices(w, ListOf(simulations.items)), LAMBDA s :
    IF Raised(s) THEN s
    ELSE
    Bind(IF truth_indices = None THEN s ELSE _normalize_indices(s.w, truth_indices),
         LAMBDA t :
    IF Raised(t) THEN t
    ELSE
    Bind(IF truth_indices # None /\ Range(s.val) # Range(t.val)
         THEN _handle_mismatch(t.w,
                  _format_mismatch_message(s.val, t.val, SortedSeq(Range(s.val) \ Range(t.val)),
                                           SortedSeq(Range(t.val) \ Range(s.val)), << >>),
                  on_mismatch, prompt, << >>, terminal)
         ELSE Return(t.w, << >>), LAMBDA m :
    IF Raised(m) THEN m
    ELSE
    Bind(load_truths(m.w, IntList(t.val), prefix, use_cache, on_missing, env, faults),
         LAMBDA b :
    IF Raised(b) THEN b
    ELSE
    LET truth_loaded == truth_indices_loaded(b.val)
    IN  Return(b.w, TruthBundle(s.val, t.val, b.val.truth, b.val.missing_truth_files,
                                SortedSeq(Range(s.val) \ Range(truth_loaded)),
                                SortedSeq(Range(truth_loaded) \ Range(s.val)),
                                m.val \o b.val.warnings))))))

truth_for_simulations(w, simulations, truth_indices, prefix, use_cache, on_missing, on_mismatch, prompt, env, faults, terminal) ==
    IF ~IsMapping(simulations)
    THEN Raise(w, Exc("TypeError", "truth_for_simulations() expects a Mapping/dict", ""))
    ELSE
    Bind(_normalize_indices(w, ListOf(simulations.items)), LAMBDA s :
    IF Raised(s) THEN s
    ELSE
    Bind(IF truth_indices = None THEN s ELSE _normalize_indices(s.w, truth_indices),
         LAMBDA t :
    IF Raised(t) THEN t
    ELSE
    Bind(load_truths(t.w, IntList(t.val), prefix, use_cache, on_missing, env, faults),
         LAMBDA b :
    IF Raised(b) THEN b
    ELSE
    LET truth_loaded == truth_indices_loaded(b.val)
        missing_for_sims == SortedSeq(Range(s.val) \ Range(truth_loaded))
        extra_truth == SortedSeq(Range(truth_loaded) \ Range(s.val))
    IN
    Bind(IF truth_indices # None /\ (missing_for_sims # << >> \/ extra_truth # << >>)
         THEN _handle_mismatch(b.w,
                  _format_mismatch_message(s.val, truth_loaded, missing_for_sims,
                                           extra_truth, b.val.missing_truth_files),
                  on_mismatch, prompt, b.val.warnings, terminal)
         ELSE Return(b.w, b.val.warnings), LAMBDA m :
    IF Raised(m) THEN m
    ELSE Return(m.w, TruthBundle(s.val, t.val, b.val.truth, b.val.missing_truth_files,
                                 missing_for_sims, extra_truth, m.val))))))

(***************************************************************************)
(* cidl/loaders.py: selection by difficulty and the bulk loaders.          *)
(***************************************************************************)
VALID_DIFFICULTIES == { "all", "very_easy", "easy", "medium", "hard", "very_hard" }

\* str(difficulty).strip(), for the labels of the model.
StripLabel(label) ==
    CASE label = " easy " -> "easy" [] label = "hard " -> "hard" [] OTHER -> label

\* _difficulty_to_tiers in which a label includes the tier below it.
_difficulty_to_tiers_cumulative(w, difficulty) ==
    IF difficulty = None THEN Return(w, None)
    ELSE Bind(StripLabel(difficulty.str), LAMBDA d :
         IF d \notin VALID_DIFFICULTIES
         THEN Raise(w, Exc("ValueError", "Invalid difficulty", ""))
         ELSE IF d = "all" THEN Return(w, None)
         ELSE Return(w, [ tiers |-> IF d = "easy" THEN { d, "very_easy" } ELSE { d } ]))

\* A difficulty is None or a str item.  A tier set is [tiers |-> S], and None
\* stands for no filtering.
_difficulty_to_tiers(w, difficulty) ==
    IF difficulty = None THEN Return(w, None)
    ELSE Bind(StripLabel(difficulty.str), LAMBDA d :
         IF d \notin VALID_DIFFICULTIES
         THEN Raise(w, Exc("ValueError", "Invalid difficulty", ""))
         ELSE IF d = "all" THEN Return(w, None)
         ELSE Return(w, [ tiers |-> { d } ]))

\* _indices_for_difficulty that takes every record that has a generator id,
\* whatever the tier of the generator.
_indices_for_difficulty_any_generator(w, difficulty, metadata_source, dgp_info_source, use_cache, env, faults) ==
    Bind(_load_acic22_metadata(w, metadata_source, use_cache, env, faults), LAMBDA meta :
    IF Raised(meta) THEN meta
    ELSE
    Bind(_load_dgp_info(meta.w, dgp_info_source, use_cache, env, faults), LAMBDA dgp_info :
    IF Raised(dgp_info) THEN dgp_info
    ELSE
    Bind(_difficulty_to_tiers(dgp_info.w, difficulty), LAMBDA t :
    IF Raised(t) THEN t
    ELSE Return(t.w, SortedSeq({ idx \in DOMAIN meta.val : "dgp" \in DOMAIN meta.val[idx] })))))

_indices_for_difficulty(w, difficulty, metadata_source, dgp_info_source, use_cache, env, faults) ==
    Bind(_load_acic22_metadata(w, metadata_source, use_cache, env, faults), LAMBDA meta :
    IF Raised(meta) THEN meta
    ELSE
    Bind(_load_dgp_info(meta.w, dgp_info_source, use_cache, env, faults), LAMBDA dgp_info :
    IF Raised(dgp_info) THEN dgp_info
    ELSE
    Bind(_difficulty_to_tiers(dgp_info.w, difficulty), LAMBDA t :
    IF Raised(t) THEN t
    ELSE IF t.val = None THEN Return(t.w, SortedSeq(DOMAIN meta.val))
    ELSE
    Bind({ dgp_id \in DOMAIN dgp_info.val :
             /\ "difficulty_tier" \in DOMAIN dgp_info.val[dgp_id]
             /\ dgp_info.val[dgp_id].difficulty_tier \in t.val.tiers }, LAMBDA allowed_dgps :
    Return(t.w, SortedSeq({ idx \in DOMAIN meta.val :
                              /\ "dgp" \in DOMAIN meta.val[idx]
                              /\ meta.val[idx].dgp \in allowed_dgps }))))))

\* A dict whose order of keys matters: the keys in insertion order and the
\* value of each.  out[key] = value keeps the place of a key it already has.
EmptyDict == [ order |-> << >>, item |-> << >> ]
DictSet(out, key, value) ==
    [ order |-> IF key \in DOMAIN out.item THEN out.order ELSE Append(out.order, key),
      item |-> Put(out.item, key, value) ]

\* The loop of load_simulations over indices[i..], a list of items.
RECURSIVE LoadSimulationsEach(_, _, _, _, _, _, _, _, _)
LoadSimulationsEach(w, indices, i, meta, prefix, use_cache, env, faults, out) ==
    IF i > Len(indices) THEN Return(w, out)
    ELSE IF ~ConvertsToInt(indices[i])
    THEN Raise(w, Exc("ValueError", "invalid literal for int()", ""))
    ELSE
    Bind(int(indices[i]), LAMBDA idx :
    Bind(IF idx \in DOMAIN meta /\ "filename" \in DOMAIN meta[idx]
         THEN meta[idx].filename ELSE SimFilename(idx), LAMBDA filename :
    Bind(_download_file(w, prefix \o "/" \o filename, use_cache, env, faults), LAMBDA data :
    IF Raised(data) THEN data
    ELSE
    Bind(_read_file_bytes(data.w, data.val, filename), LAMBDA frame :
    IF Raised(frame) THEN frame
    ELSE LoadSimulationsEach(frame.w, indices, i + 1, meta, prefix, use_cache, env, faults,
                             DictSet(out, idx, frame.val))))))

\* load_simulations that loads the indices in ascending order.
load_simulations_ascending(w, indices, prefix, use_cache, metadata_source, env, faults) ==
    Bind(_ensure_connected(w, env), LAMBDA c :
    IF Raised(c) THEN c
    ELSE
    Bind(_load_acic22_metadata(c.w, metadata_source, use_cache, env, faults), LAMBDA meta :
    IF Raised(meta) THEN meta
    ELSE LoadSimulationsEach(meta.w, IntList(SortedSeq({ int(indices[k]) : k \in DOMAIN indices })).items,
                             1, meta.val, prefix, use_cache, env, faults, EmptyDict)))

load_simulations(w, indices, prefix, use_cache, metadata_source, env, faults) ==
    Bind(_ensure_connected(w, env), LAMBDA c :
    IF Raised(c) THEN c
    ELSE
    Bind(_load_acic22_metadata(c.w, metadata_source, use_cache, env, faults), LAMBDA meta :
    IF Raised(meta) THEN meta
    ELSE LoadSimulationsEach(meta.w, indices, 1, meta.val, prefix, use_cache, env, faults,
                             EmptyDict)))

\* Sample that draws with replacement: the same member n times.
Sample_with_replacement(seed, population, n) == { population[(seed % Len(population)) + 1] }

\* rng.choice(population, size=n, replace=False) of the generator that
\* default_rng(seed) returns: n distinct members of the population, a function
\* of the seed, the population and n.
Sample(seed, population, n) ==
    { population[((seed + k) % Len(population)) + 1] : k \in 0..(n - 1) }

\* load_random_simulations that seeds its generator from the system whatever
\* the seed argument is.
load_random_simulations_unseeded(w, n, difficulty, prefix, seed, use_cache, metadata_source, dgp_info_source, env, faults, entropy) ==
    IF "int" \notin DOMAIN n \/ n.int <= 0
    THEN Raise(w, Exc("ValueError", "n must be a positive integer.", ""))
    ELSE
    Bind(_indices_for_difficulty(w, difficulty, metadata_source, dgp_info_source, use_cache,
                                 env, faults), LAMBDA eligible :
    IF Raised(eligible) THEN eligible
    ELSE IF n.int > Len(eligible.val)
    THEN Raise(eligible.w, Exc("ValueError", "Requested n, but only len(eligible) available", ""))
    ELSE
    Bind(SortedSeq(Sample(entropy, eligible.val, n.int)), LAMBDA sampled :
    load_simulations(eligible.w, [ k \in DOMAIN sampled |-> IntItem(sampled[k]) ], prefix,
                     use_cache, metadata_source, env, faults)))

\* n and seed are items; seed may be None, and the generator is then seeded
\* with entropy of the operating system.
load_random_simulations(w, n, difficulty, prefix, seed, use_cache, metadata_source, dgp_info_source, env, faults, entropy) ==
    IF "int" \notin DOMAIN n \/ n.int <= 0
    THEN Raise(w, Exc("ValueError", "n must be a positive integer.", ""))
    ELSE
    Bind(_indices_for_difficulty(w, difficulty, metadata_source, dgp_info_source, use_cache,
                                 env, faults), LAMBDA eligible :
    IF Raised(eligible) THEN eligible
    ELSE IF n.int > Len(eligible.val)
    THEN Raise(eligible.w, Exc("ValueError", "Requested n, but only len(eligible) available", ""))
    ELSE
    Bind(SortedSeq(Sample(IF seed = None THEN entropy ELSE seed.int, eligible.val, n.int)),
         LAMBDA sampled :
    load_simulations(eligible.w, [ k \in DOMAIN sampled |-> IntItem(sampled[k]) ], prefix,
                     use_cache, metadata_source, env, faults)))

\* keys[:limit]
Slice(seq, limit) ==
    IF limit >= 0 THEN Take(seq, limit)
    ELSE SubSeq(seq, 1, IF Len(seq) + limit > 0 THEN Len(seq) + limit ELSE 0)

\* The loop of load_prefix over keys[i..]; a key whose load_file raises is
\* printed and left out.
RECURSIVE LoadPrefixEach(_, _, _, _, _, _, _)
LoadPrefixEach(w, keys, i, use_cache, env, faults, out) ==
    IF i > Len(keys) THEN Return(w, out)
    ELSE
    Bind(load_file(w, keys[i], use_cache, env, faults), LAMBDA frame :
    IF Raised(frame)
    THEN Bind(Logged(frame.w, "print", keys[i]), LAMBDA w1 :
         LoadPrefixEach(w1, keys, i + 1, use_cache, env, faults, out))
    ELSE LoadPrefixEach(frame.w, keys, i + 1, use_cache, env, faults,
                        DictSet(out, keys[i], frame.val)))

\* load_prefix that loads the whole listing whatever the limit is.
load_prefix_unlimited(w, prefix, limit, use_cache, env, faults) ==
    Bind(_ensure_connected(w, env), LAMBDA c :
    IF Raised(c) THEN c
    ELSE
    Bind(ListRequest(c.w, prefix, faults), LAMBDA l :
    IF Raised(l) THEN l
    ELSE LoadPrefixEach(l.w, l.val, 1, use_cache, env, faults, EmptyDict)))

\* limit is None or an int item.
load_prefix(w, prefix, limit, use_cache, env, faults) ==
    Bind(_ensure_connected(w, env), LAMBDA c :
    IF Raised(c) THEN c
    ELSE
    Bind(ListRequest(c.w, prefix, faults), LAMBDA l :
    IF Raised(l) THEN l
    ELSE LoadPrefixEach(l.w, IF limit = None THEN l.val ELSE Slice(l.val, limit.int), 1,
                        use_cache, env, faults, EmptyDict)))

(***************************************************************************)
(* The process state as a record, and a call as a step.                    *)
(***************************************************************************)
World ==
    [ _S3 |-> _S3, _BUCKET |-> _BUCKET, _ACTIVE_ENDPOINT |-> _ACTIVE_ENDPOINT,
      _READ_ONLY |-> _READ_ONLY, _CACHE |-> _CACHE, _META_CACHE |-> _META_CACHE,
      store |-> store, localfs |-> localfs, established |-> established,
      log |-> << >>, warned |-> << >>, prompted |-> FALSE ]

Outcome(r, op, args) ==
    [ op |-> op, args |-> args, exc |-> r.exc, val |-> r.val, log |-> r.w.log,
      warned |-> r.w.warned, prompted |-> r.w.prompted ]

\* No upload_directory call is in progress.
NoBatch ==
    [ pc |-> "idle", key_prefix |-> "", max_workers |-> 0, to_upload |-> << >>,
      future |-> << >>, next |-> 1, failed |-> << >>, exc |-> NoExc ]

NoCall ==
    [ op |-> "none", args |-> << >>, exc |-> NoExc, val |-> None, log |-> << >>,
      warned |-> << >>, prompted |-> FALSE ]

\* The call op(args) ran from the current state and ended as r.  Calls do
\* not overlap: a call starts when ret is NoCall, that is, when the caller
\* has taken the outcome of the one before.
Commit(r, op, args) ==
    /\ UNCHANGED << prev, batch >>
    /\ _S3' = r.w._S3
    /\ _BUCKET' = r.w._BUCKET
    /\ _ACTIVE_ENDPOINT' = r.w._ACTIVE_ENDPOINT
    /\ _READ_ONLY' = r.w._READ_ONLY
    /\ _CACHE' = r.w._CACHE
    /\ _META_CACHE' = r.w._META_CACHE
    /\ store' = r.w.store
    /\ localfs' = r.w.localfs
    /\ established' = r.w.established
    /\ ret' = Outcome(r, op, args)

\* The caller takes the outcome of the call that ended.
ReturnToCaller ==
    /\ ret.op # "none"
    /\ ret' = NoCall
    /\ prev' = IF ret.op = "_download_file" THEN ret ELSE NoCall
    /\ UNCHANGED << _S3, _BUCKET, _ACTIVE_ENDPOINT, _READ_ONLY, _CACHE, _META_CACHE,
                    store, localfs, established, batch >>

\* The environment of the implicit connect_s3 call of _ensure_connected: it
\* matters only when the call is made.
EnvsHere == IF _S3 = None \/ _BUCKET = None THEN ConnectEnvs ELSE { GoodEnv }

\* The state of a fresh process: the module globals as the source sets them.
InitGlobals ==
    /\ _S3 = None
    /\ _BUCKET = None
    /\ _ACTIVE_ENDPOINT = None
    /\ _READ_ONLY = TRUE
    /\ _CACHE = << >>
    /\ _META_CACHE = << >>
    /\ established = "none"
    /\ ret = NoCall
    /\ prev = NoCall
    /\ batch = NoBatch

(***************************************************************************)
(* SpecBackend: the calls of backend.py.                                   *)
(***************************************************************************)
BucketNames == { "cidl-test", "no-such-bucket" }
EndpointKeys == { "primary", "site-1", "secondary" }
UploadNames == { "notes.txt", SimFilename(1), "gone.csv" }
BackendKeys == { NotesKey, DEFAULT_SIM_PREFIX \o "/" \o SimFilename(1) }
BackendFaults == { ClientError("AccessDenied", "") }
BackendPrefixes == { DEFAULT_SIM_PREFIX, "nothing" }
ExtensionLists == { None, [ list |-> << "*.txt" >> ], [ list |-> << "*.parquet", "*" >> ] }
LocalPaths == { LocalPath(LocalNames[i]) : i \in DOMAIN LocalNames }
                 \cup { LocalPath("gone.csv") } \cup MetaKeys

InitBackend ==
    /\ InitGlobals
    /\ store = [ k \in Keys |->
                   IF k = DEFAULT_SIM_PREFIX \o "/" \o SimFilename(1) THEN "frame_b"
                   ELSE Absent ]
    /\ localfs = [ p \in LocalPaths |->
                     IF p \in { LocalPath("gone.csv") } \cup MetaKeys THEN Absent
                     ELSE "frame_a" ]

Connect ==
    /\ ret.op = "none"
    /\ \E bucket_name \in BucketNames, endpoint_key \in EndpointKeys,
          read_only \in BOOLEAN, env \in ConnectEnvs :
           \E r \in { connect_s3(World, bucket_name, endpoint_key, read_only, env) } :
               Commit(r, "connect_s3", <<bucket_name, endpoint_key, read_only, env>>)

ListObjects ==
    /\ ret.op = "none"
    /\ \E prefix \in BackendPrefixes, limit \in { 1, 50 }, env \in EnvsHere,
          faults \in FaultSets({ "list" }, BackendFaults) :
           \E r \in { list_objects(World, prefix, limit, env, faults) } :
               Commit(r, "list_objects", <<prefix, limit>>)

BucketSummary ==
    /\ ret.op = "none"
    /\ \E env \in EnvsHere, faults \in FaultSets({ "list" }, BackendFaults) :
           \E r \in { bucket_summary(World, env, faults) } :
               Commit(r, "bucket_summary", << >>)

UploadFile ==
    /\ ret.op = "none"
    /\ \E name \in UploadNames, key_prefix \in { DEFAULT_SIM_PREFIX }, env \in EnvsHere,
          faults \in FaultSets(BackendKeys, BackendFaults) :
           \E r \in { upload_file(World, name, key_prefix, env, faults) } :
               Commit(r, "upload_file", <<name, key_prefix>>)

UploadDirectory ==
    /\ ret.op = "none"
    /\ \E key_prefix \in { DEFAULT_SIM_PREFIX }, extensions \in ExtensionLists,
          env \in EnvsHere, faults \in FaultSets(BackendKeys \cup { "list" }, BackendFaults) :
           \E r \in { upload_directory(World, key_prefix, extensions, env, faults) } :
               Commit(r, "upload_directory", <<key_prefix, extensions>>)

DeleteObject ==
    /\ ret.op = "none"
    /\ \E key \in BackendKeys, env \in EnvsHere, faults \in FaultSets(BackendKeys, BackendFaults) :
           \E r \in { delete_object(World, key, env, faults) } :
               Commit(r, "delete_object", <<key>>)

DeletePrefix ==
    /\ ret.op = "none"
    /\ \E key_prefix \in BackendPrefixes, env \in EnvsHere,
          faults \in FaultSets(BackendKeys \cup { "list" }, BackendFaults) :
           \E r \in { delete_prefix(World, key_prefix, env, faults) } :
               Commit(r, "delete_prefix", <<key_prefix, faults>>)

\* A loader call in the same process: loaders._download_file of one object,
\* past the byte cache.
FetchBytes ==
    /\ ret.op = "none"
    /\ \E key \in BackendKeys, env \in EnvsHere :
          \E r \in { _download_file(World, key, FALSE, env, NoFaults) } :
              Commit(r, "_download_file", [ key |-> key, use_cache |-> FALSE ])

NextBackend ==
    \/ Connect
    \/ ListObjects
    \/ BucketSummary
    \/ UploadFile
    \/ UploadDirectory
    \/ DeleteObject
    \/ DeletePrefix
    \/ FetchBytes
    \/ ReturnToCaller

SpecBackend == InitBackend /\ [][NextBackend]_vars


(***************************************************************************)
(* SpecLoader: the calls of cidl/loaders.py, while other clients rewrite   *)
(* the objects of the bucket and the local metadata file is rewritten.     *)
(***************************************************************************)
Sim1Key == DEFAULT_SIM_PREFIX \o "/" \o SimFilename(1)
LoaderKeys == { Sim1Key, NotesKey }
LoaderFaults == { ClientError("AccessDenied", ""), EndpointConnectionError }
\* The implicit connect_s3 call of a loader call succeeds or finds no credentials.
LoaderEnvs ==
    IF _S3 = None \/ _BUCKET = None
    THEN { GoodEnv, ConnectEnv(FALSE, FALSE, "ok", "ok") } ELSE { GoodEnv }

InitLoader ==
    /\ InitGlobals
    /\ store = [ k \in Keys |->
                   CASE k = Sim1Key -> "frame_a"
                     [] k = NotesKey -> "frame_b"
                     [] k = DEFAULT_ACIC22_METADATA -> "meta_1"
                     [] k = DEFAULT_ACIC22_DGP_INFO -> "dgp_1"
                     [] OTHER -> Absent ]
    /\ localfs = [ p \in LocalPaths |-> Absent ]

DownloadFile ==
    /\ ret.op = "none"
    /\ \E key \in LoaderKeys, use_cache \in BOOLEAN, env \in LoaderEnvs :
         \E faults \in FaultSets({ key }, LoaderFaults) :
           \E r \in { _download_file(World, key, use_cache, env, faults) } :
               Commit(r, "_download_file", [ key |-> key, use_cache |-> use_cache ])

LoadFile ==
    /\ ret.op = "none"
    /\ \E key \in LoaderKeys, use_cache \in BOOLEAN, env \in LoaderEnvs :
         \E faults \in FaultSets({ key }, LoaderFaults) :
           \E r \in { load_file(World, key, use_cache, env, faults) } :
               Commit(r, "load_file", [ key |-> key, use_cache |-> use_cache ])

LoadSimulation ==
    /\ ret.op = "none"
    /\ \E index \in SimIdx, use_cache \in BOOLEAN, env \in LoaderEnvs,
          faults \in FaultSets({ Sim1Key }, LoaderFaults) :
           \E r \in { load_simulation(World, index, DEFAULT_SIM_PREFIX, use_cache, env, faults) } :
               Commit(r, "load_simulation", [ index |-> index, use_cache |-> use_cache ])

LoadAcic22Metadata ==
    /\ ret.op = "none"
    /\ \E source \in { DEFAULT_ACIC22_METADATA }, use_cache \in BOOLEAN, env \in LoaderEnvs :
         \E faults \in FaultSets({ source }, LoaderFaults) :
           \E r \in { _load_acic22_metadata(World, source, use_cache, env, faults) } :
               Commit(r, "_load_acic22_metadata", [ source |-> source, use_cache |-> use_cache ])

LoadDgpInfo ==
    /\ ret.op = "none"
    /\ \E source \in { DEFAULT_ACIC22_DGP_INFO }, use_cache \in BOOLEAN, env \in LoaderEnvs :
         \E faults \in FaultSets({ source }, LoaderFaults) :
           \E r \in { _load_dgp_info(World, source, use_cache, env, faults) } :
               Commit(r, "_load_dgp_info", [ source |-> source, use_cache |-> use_cache ])

\* Another client of the bucket writes or deletes an object.
RemoteChange ==
    /\ ret.op = "none"
    /\ \E key \in { Sim1Key }, bytes \in Frames \cup { Absent } :
        /\ store[key] # bytes
        /\ store' = [store EXCEPT ![key] = bytes]
    /\ UNCHANGED << _S3, _BUCKET, _ACTIVE_ENDPOINT, _READ_ONLY, _CACHE, _META_CACHE,
                    localfs, established, ret, prev, batch >>

\* The local metadata file is written, rewritten or removed.
LocalChange ==
    /\ ret.op = "none"
    /\ \E path \in { DEFAULT_ACIC22_METADATA }, bytes \in { "meta_1", "meta_2", Absent } :
        /\ localfs[path] # bytes
        /\ localfs' = [localfs EXCEPT ![path] = bytes]
    /\ UNCHANGED << _S3, _BUCKET, _ACTIVE_ENDPOINT, _READ_ONLY, _CACHE, _META_CACHE,
                    store, established, ret, prev, batch >>

NextLoader ==
    \/ DownloadFile
    \/ LoadFile
    \/ LoadSimulation
    \/ LoadAcic22Metadata
    \/ LoadDgpInfo
    \/ RemoteChange
    \/ LocalChange
    \/ ReturnToCaller

SpecLoader == InitLoader /\ [][NextLoader]_vars


(***************************************************************************)
(* SpecTruth: the calls of truth_matcher.py against a bucket that holds    *)
(* some of the truth objects.                                              *)
(***************************************************************************)
MaxIndices == 3
BoundedSeqs(S, n) == UNION { [1..k -> S] : k \in 0..n }

TruthItems ==
    { IntItem(5), IntItem(6), IntItem(7), StrItem("6"), StrItem(" 9 "), StrItem("x") }
IndexArgs ==
    { None, MappingOf(<< IntItem(5) >>), [ kind |-> "int", items |-> << IntItem(6) >> ] }
    \cup { ListOf(items) : items \in BoundedSeqs(TruthItems, MaxIndices) }
Simulations ==
    { MappingOf(<< IntItem(7), IntItem(5), IntItem(6) >>), MappingOf(<< IntItem(6) >>),
      ListOf(<< IntItem(5) >>), None }
TruthIndexArgs ==
    { None, ListOf(<< IntItem(5), IntItem(6), IntItem(9) >>),
      ListOf(<< IntItem(7), IntItem(6), IntItem(5) >>), ListOf(<< IntItem(6), StrItem("6") >>),
      ListOf(<< IntItem(9), IntItem(5) >>), MappingOf(<< IntItem(6) >>),
      ListOf(<< StrItem("x") >>), ListOf(<< >>) }
Policies == { "warn", "error", "ignore", "skip" }
Terminals ==
    { Terminal(FALSE, ""), Terminal(TRUE, "y"), Terminal(TRUE, " Y "), Terminal(TRUE, "n"),
      Terminal(TRUE, "") }
TruthFaults ==
    { ClientError("AccessDenied", ""), ClientError("InternalError", "Not Found"),
      Exc("FileNotFoundError", "", ""), EndpointConnectionError }
TruthFaultKeys == { _truth_key(6, DEFAULT_TRUTH_PREFIX) }
\* The truth objects the bucket holds.
TruthStores == { {5, 6}, {6, 9} }

InitTruth ==
    /\ InitGlobals
    /\ \E present \in TruthStores :
        store = [ k \in Keys |->
                    IF \E i \in present : k = _truth_key(i, DEFAULT_TRUTH_PREFIX)
                    THEN "frame_a" ELSE Absent ]
    /\ localfs = [ p \in LocalPaths |-> Absent ]

LoadTruths ==
    /\ ret.op = "none"
    /\ \E indices \in IndexArgs, use_cache \in BOOLEAN, on_missing \in Policies,
          env \in LoaderEnvs, faults \in FaultSets(TruthFaultKeys, TruthFaults) :
           \E r \in { load_truths(World, indices, DEFAULT_TRUTH_PREFIX, use_cache, on_missing,
                                  env, faults) } :
               Commit(r, "load_truths",
                      [ indices |-> indices, use_cache |-> use_cache,
                        on_missing |-> on_missing, env |-> env, faults |-> faults ])

TruthForSimulations ==
    /\ ret.op = "none"
    /\ \E simulations \in Simulations, truth_indices \in TruthIndexArgs,
          use_cache \in BOOLEAN, on_missing \in Policies, on_mismatch \in Policies,
          prompt \in BOOLEAN, env \in LoaderEnvs,
          faults \in FaultSets(TruthFaultKeys, TruthFaults) :
         \E terminal \in IF prompt THEN Terminals ELSE { Terminal(FALSE, "") } :
           \E r \in { truth_for_simulations(World, simulations, truth_indices,
                          DEFAULT_TRUTH_PREFIX, use_cache, on_missing, on_mismatch, prompt,
                          env, faults, terminal) } :
               Commit(r, "truth_for_simulations",
                      [ simulations |-> simulations, truth_indices |-> truth_indices,
                        use_cache |-> use_cache, on_missing |-> on_missing,
                        on_mismatch |-> on_mismatch, prompt |-> prompt, env |-> env,
                        faults |-> faults, terminal |-> terminal ])

NextTruth ==
    \/ LoadTruths
    \/ TruthForSimulations
    \/ ReturnToCaller

SpecTruth == InitTruth /\ [][NextTruth]_vars


(***************************************************************************)
(* SpecSelect: the selection by difficulty and the random loader of         *)
(* cidl/loaders.py, against a bucket whose metadata document is rewritten. *)
(***************************************************************************)
Sim2Key == DEFAULT_SIM_PREFIX \o "/" \o SimFilename(2)
Difficulties ==
    { None } \cup { StrItem(d) : d \in VALID_DIFFICULTIES \cup { " easy ", "Easy", "very-easy", "" } }

InitSelect ==
    /\ InitGlobals
    /\ \E dgp \in { "dgp_1", "dgp_2" } :
        store = [ k \in Keys |->
                    CASE k = Sim1Key -> "frame_a"
                      [] k = Sim2Key -> "frame_b"
                      [] k = DEFAULT_ACIC22_METADATA -> "meta_1"
                      [] k = DEFAULT_ACIC22_DGP_INFO -> dgp
                      [] OTHER -> Absent ]
    /\ localfs = [ p \in LocalPaths |-> Absent ]

DifficultyToTiers ==
    /\ ret.op = "none"
    /\ \E difficulty \in Difficulties :
         \E r \in { _difficulty_to_tiers(World, difficulty) } :
             Commit(r, "_difficulty_to_tiers", [ difficulty |-> difficulty ])

IndicesForDifficulty ==
    /\ ret.op = "none"
    /\ \E difficulty \in Difficulties, use_cache \in BOOLEAN, env \in LoaderEnvs :
         \E r \in { _indices_for_difficulty(World, difficulty, DEFAULT_ACIC22_METADATA,
                        DEFAULT_ACIC22_DGP_INFO, use_cache, env, NoFaults) } :
             Commit(r, "_indices_for_difficulty",
                    [ difficulty |-> difficulty, use_cache |-> use_cache, env |-> env,
                      faults |-> NoFaults ])

LoadRandomSimulations ==
    /\ ret.op = "none"
    /\ \E n \in { IntItem(i) : i \in -1..3 } \cup { StrItem("5") },
          difficulty \in { StrItem(d) : d \in { "all", "easy", "hard", "medium", "Easy" } },
          seed \in { None, IntItem(0), IntItem(1) }, use_cache \in BOOLEAN,
          env \in LoaderEnvs :
         \E entropy \in { 0, 1 } :
           \E r \in { load_random_simulations(World, n, difficulty, DEFAULT_SIM_PREFIX, seed,
                          use_cache, DEFAULT_ACIC22_METADATA, DEFAULT_ACIC22_DGP_INFO, env,
                          NoFaults, entropy) } :
               Commit(r, "load_random_simulations",
                      [ n |-> n, difficulty |-> difficulty, seed |-> seed,
                        use_cache |-> use_cache, env |-> env, faults |-> NoFaults,
                        entropy |-> entropy ])

\* The owner of the bucket rewrites or removes the metadata document.
MetadataChange ==
    /\ ret.op = "none"
    /\ \E bytes \in { "meta_1", "meta_2", "meta_3", Absent } :
        /\ store[DEFAULT_ACIC22_METADATA] # bytes
        /\ store' = [ store EXCEPT ![DEFAULT_ACIC22_METADATA] = bytes ]
    /\ UNCHANGED << _S3, _BUCKET, _ACTIVE_ENDPOINT, _READ_ONLY, _CACHE, _META_CACHE,
                    localfs, established, ret, prev, batch >>

NextSelect ==
    \/ DifficultyToTiers
    \/ IndicesForDifficulty
    \/ LoadRandomSimulations
    \/ MetadataChange
    \/ ReturnToCaller

SpecSelect == InitSelect /\ [][NextSelect]_vars

(***************************************************************************)
(* SpecBulk: load_simulations and load_prefix, against a bucket in which   *)
(* the second simulation may be missing or damaged.                        *)
(***************************************************************************)
MaxLoad == 3

InitBulk ==
    /\ InitGlobals
    /\ \E sim2 \in { "frame_b", Absent, "dgp_1" } :
        store = [ k \in Keys |->
                    CASE k = Sim1Key -> "frame_a"
                      [] k = Sim2Key -> sim2
                      [] k = NotesKey -> "frame_b"
                      [] k = DEFAULT_ACIC22_METADATA -> "meta_1"
                      [] k = DEFAULT_ACIC22_DGP_INFO -> "dgp_1"
                      [] OTHER -> Absent ]
    /\ localfs = [ p \in LocalPaths |-> Absent ]

LoadSimulations ==
    /\ ret.op = "none"
    /\ \E indices \in BoundedSeqs({ IntItem(1), IntItem(2) }, MaxLoad), use_cache \in BOOLEAN,
          env \in LoaderEnvs, faults \in FaultSets({ Sim1Key }, { EndpointConnectionError }) :
         \E r \in { load_simulations(World, indices, DEFAULT_SIM_PREFIX, use_cache,
                                     DEFAULT_ACIC22_METADATA, env, faults) } :
             Commit(r, "load_simulations",
                    [ indices |-> indices, use_cache |-> use_cache, env |-> env,
                      faults |-> faults ])

LoadPrefix ==
    /\ ret.op = "none"
    /\ \E prefix \in { DEFAULT_SIM_PREFIX, "nothing" },
          limit \in { None } \cup { IntItem(i) : i \in -1..2 }, use_cache \in BOOLEAN,
          env \in LoaderEnvs,
          faults \in FaultSets({ Sim1Key, "list" }, { EndpointConnectionError }) :
         \E r \in { load_prefix(World, prefix, limit, use_cache, env, faults) } :
             Commit(r, "load_prefix",
                    [ prefix |-> prefix, limit |-> limit, use_cache |-> use_cache,
                      env |-> env, faults |-> faults ])

NextBulk ==
    \/ LoadSimulations
    \/ LoadPrefix
    \/ MetadataChange
    \/ ReturnToCaller

SpecBulk == InitBulk /\ [][NextBulk]_vars


(***************************************************************************)
(* SpecSchema: the two metadata loaders of cidl/loaders.py, against a      *)
(* bucket whose two documents are rewritten with every payload.            *)
(***************************************************************************)
InitSchema ==
    /\ InitGlobals
    /\ store = [ k \in Keys |->
                   CASE k = DEFAULT_ACIC22_METADATA -> "meta_1"
                     [] k = DEFAULT_ACIC22_DGP_INFO -> "dgp_1"
                     [] OTHER -> Absent ]
    /\ localfs = [ p \in LocalPaths |-> Absent ]

\* Another client of the bucket rewrites one of the two documents.
DocumentChange ==
    /\ ret.op = "none"
    /\ \E key \in { DEFAULT_ACIC22_METADATA, DEFAULT_ACIC22_DGP_INFO },
          bytes \in JsonPayloads \cup { "frame_a" } :
        /\ store[key] # bytes
        /\ store' = [store EXCEPT ![key] = bytes]
    /\ UNCHANGED << _S3, _BUCKET, _ACTIVE_ENDPOINT, _READ_ONLY, _CACHE, _META_CACHE,
                    localfs, established, ret, prev, batch >>

NextSchema ==
    \/ LoadAcic22Metadata
    \/ LoadDgpInfo
    \/ DocumentChange
    \/ ReturnToCaller

SpecSchema == InitSchema /\ [][NextSchema]_vars


(***************************************************************************)
(* SpecUpload: an upload_directory call step by step -- the gate and the   *)
(* listing, the futures of its ThreadPoolExecutor, the loop over ex.map -- *)
(* while another thread of the process calls connect_s3.                   *)
(***************************************************************************)
WorkerCounts == { 1, 2 }
UploadPatterns == { [ list |-> << "*" >> ], [ list |-> << "*.txt" >> ] }
\* The environments of the connect_s3 calls of the other thread.
OtherEnvs == { GoodEnv, ConnectEnv(FALSE, FALSE, "ok", "ok") }

\* The module globals, the store and the files as a step leaves them.
Keep(w) ==
    /\ _S3' = w._S3
    /\ _BUCKET' = w._BUCKET
    /\ _ACTIVE_ENDPOINT' = w._ACTIVE_ENDPOINT
    /\ _READ_ONLY' = w._READ_ONLY
    /\ _CACHE' = w._CACHE
    /\ _META_CACHE' = w._META_CACHE
    /\ store' = w.store
    /\ localfs' = w.localfs
    /\ established' = w.established

\* A future of the pool: pending in the work queue, running in a worker
\* thread, finished with the value or the exception of its upload_file call,
\* or cancelled.
Future(state, exc, val) == [ state |-> state, exc |-> exc, val |-> val ]
Pending == Future("pending", NoExc, None)
InFlight(b) == { i \in DOMAIN b.future : b.future[i].state = "running" }

\* A worker thread takes the next item of the work queue: the queue is first
\* in, first out, and the pool runs at most max_workers threads.
CanStart_unbounded(b, i) ==
    /\ b.future[i].state = "pending"
    /\ \A j \in 1..(i - 1) : b.future[j].state # "pending"

CanStart(b, i) ==
    /\ b.future[i].state = "pending"
    /\ \A j \in 1..(i - 1) : b.future[j].state # "pending"
    /\ Cardinality(InFlight(b)) < b.max_workers

InitUpload ==
    /\ InitGlobals
    /\ store = [ k \in Keys |-> Absent ]
    /\ localfs = [ p \in LocalPaths |->
                     IF p \in { LocalPath("gone.csv") } \cup MetaKeys THEN Absent
                     ELSE "frame_a" ]

\* upload_directory is called: it runs to the creation of the pool, and
\* ex.map submits one future per file of to_upload.
BatchStart ==
    /\ batch.pc = "idle"
    /\ \E extensions \in UploadPatterns, max_workers \in WorkerCounts, env \in OtherEnvs,
          faults \in FaultSets({ "list" }, BackendFaults) :
           \E t \in { ToUpload(World, DEFAULT_SIM_PREFIX, extensions, env, faults) } :
               /\ Keep(t.w)
               /\ batch' = IF Raised(t)
                           THEN [NoBatch EXCEPT !.pc = "done", !.exc = t.exc]
                           ELSE [NoBatch EXCEPT !.pc = "pool",
                                                !.key_prefix = DEFAULT_SIM_PREFIX,
                                                !.max_workers = max_workers,
                                                !.to_upload = t.val,
                                                !.future = [ i \in DOMAIN t.val |-> Pending ]]
    /\ UNCHANGED << ret, prev >>

\* A worker thread starts upload_file for the next file: _ensure_connected()
\* and _check_write_permission(), on the module globals as they are now.  An
\* exception of the gate ends the future.
WorkerStart ==
    /\ batch.pc \in { "pool", "aborting" }
    /\ \E i \in DOMAIN batch.future :
        /\ CanStart(batch, i)
        /\ \E g \in { Gate(World, GoodEnv) } :
            /\ Keep(g.w)
            /\ batch' = [batch EXCEPT !.future[i] =
                            IF Raised(g) THEN Future("finished", g.exc, None)
                            ELSE Future("running", NoExc, None)]
    /\ UNCHANGED << ret, prev >>

\* The try block of a running upload_file call: the future ends with the
\* triple it returns.
WorkerFinish ==
    /\ batch.pc \in { "pool", "aborting" }
    /\ \E i \in InFlight(batch) :
        \E faults \in FaultSets({ batch.key_prefix \o "/" \o batch.to_upload[i] },
                                BackendFaults) :
          \E r \in { Transfer(World, batch.to_upload[i], batch.key_prefix, faults) } :
            /\ Keep(r.w)
            /\ batch' = [batch EXCEPT !.future[i] = Future("finished", r.exc, r.val)]
    /\ UNCHANGED << ret, prev >>

\* The loop over ex.map takes the result of the next future, in the order of
\* to_upload, and appends a failed upload to the list.
Collect ==
    /\ batch.pc = "pool"
    /\ batch.next \in DOMAIN batch.future
    /\ batch.future[batch.next].state = "finished"
    /\ batch.future[batch.next].exc = NoExc
    /\ batch' = [batch EXCEPT
                   !.next = @ + 1,
                   !.failed = IF batch.future[batch.next].val[2] = True THEN @
                              ELSE Append(@, << batch.future[batch.next].val[1],
                                                batch.future[batch.next].val[2] >>)]
    /\ UNCHANGED << _S3, _BUCKET, _ACTIVE_ENDPOINT, _READ_ONLY, _CACHE, _META_CACHE,
                    store, localfs, established, ret, prev >>

\* The next future ended with an exception: ex.map raises it in the loop and
\* cancels the futures that have not started; the with statement then waits
\* for the running ones.
Abort ==
    /\ batch.pc = "pool"
    /\ batch.next \in DOMAIN batch.future
    /\ batch.future[batch.next].state = "finished"
    /\ batch.future[batch.next].exc # NoExc
    /\ batch' = [batch EXCEPT
                   !.pc = "aborting",
                   !.exc = batch.future[batch.next].exc,
                   !.future = [ i \in DOMAIN @ |->
                                  IF @[i].state = "pending"
                                  THEN Future("cancelled", NoExc, None) ELSE @[i] ]]
    /\ UNCHANGED << _S3, _BUCKET, _ACTIVE_ENDPOINT, _READ_ONLY, _CACHE, _META_CACHE,
                    store, localfs, established, ret, prev >>

\* Every future was taken: upload_directory returns the list.
BatchReturns ==
    /\ batch.pc = "pool"
    /\ batch.next = Len(batch.future) + 1
    /\ batch' = [batch EXCEPT !.pc = "done"]
    /\ UNCHANGED << _S3, _BUCKET, _ACTIVE_ENDPOINT, _READ_ONLY, _CACHE, _META_CACHE,
                    store, localfs, established, ret, prev >>

\* No future is running any more: the exception leaves upload_directory.
BatchRaises ==
    /\ batch.pc = "aborting"
    /\ InFlight(batch) = {}
    /\ batch' = [batch EXCEPT !.pc = "done"]
    /\ UNCHANGED << _S3, _BUCKET, _ACTIVE_ENDPOINT, _READ_ONLY, _CACHE, _META_CACHE,
                    store, localfs, established, ret, prev >>

\* The caller of upload_directory takes its outcome.
BatchTaken ==
    /\ batch.pc = "done"
    /\ batch' = NoBatch
    /\ UNCHANGED << _S3, _BUCKET, _ACTIVE_ENDPOINT, _READ_ONLY, _CACHE, _META_CACHE,
                    store, localfs, established, ret, prev >>

\* Another thread calls connect_s3.
OtherCallerConnects ==
    /\ ret.op = "none"
    /\ \E bucket_name \in BucketNames, read_only \in BOOLEAN, env \in OtherEnvs :
           \E r \in { connect_s3(World, bucket_name, "primary", read_only, env) } :
               Commit(r, "connect_s3", <<bucket_name, "primary", read_only, env>>)

NextUpload ==
    \/ BatchStart
    \/ WorkerStart
    \/ WorkerFinish
    \/ Collect
    \/ Abort
    \/ BatchReturns
    \/ BatchRaises
    \/ BatchTaken
    \/ OtherCallerConnects
    \/ ReturnToCaller

SpecUpload == InitUpload /\ [][NextUpload]_vars


(***************************************************************************)
(* Properties of the session state (SpecBackend).                          *)
(***************************************************************************)
MutatingOps == { "upload_file", "upload_directory", "delete_object", "delete_prefix" }
\* The events of a request log that are of one of the kinds evs.
EventsOf(log, evs) == { i \in DOMAIN log : log[i].ev \in evs }

\* C1: after any sequence of connect calls, a mutating operation raises
\* PermissionError and sends no upload or delete request whenever the session
\* in use was established read-only, and sends a request to the store only
\* when the session in use was established with read_only=false.
C1_GateFollowsEstablishedSession ==
    ret.op \in MutatingOps =>
        /\ established = "read_only" =>
              /\ ret.exc.type = "PermissionError"
              /\ EventsOf(ret.log, { "upload", "delete" }) = {}
        /\ EventsOf(ret.log, { "list", "upload", "delete" }) # {} => established = "write"

\* C2: a connect_s3 call that raises leaves _S3, _BUCKET, _ACTIVE_ENDPOINT
\* and _READ_ONLY as they were before the call.
C2_FailedConnectChangesNothing ==
    [][(ret.op = "none" /\ ret'.op = "connect_s3" /\ ret'.exc # NoExc)
          => UNCHANGED << _S3, _BUCKET, _ACTIVE_ENDPOINT, _READ_ONLY >>]_vars

\* C3: a call that finds no session (_S3 or _BUCKET unset) calls connect_s3
\* with the defaults (cidl-test, primary, read_only=True), once and before any
\* request to the store; a call that finds a session never calls connect_s3.
\* So a mutating call on a process without a session connects read-only and,
\* the connect having succeeded, raises PermissionError; it changes no object.
C3_ImplicitConnect ==
    [][(ret.op = "none" /\ ret'.op \notin { "none", "connect_s3" }) =>
          LET log == ret'.log
              connects == EventsOf(log, { "connect_s3" })
          IN  IF _S3 = None \/ _BUCKET = None
              THEN /\ connects = { 1 }
                   /\ log[1].key = ConnectArgs("cidl-test", "primary", TRUE)
                   /\ ret'.op \in MutatingOps =>
                         /\ store' = store
                         /\ EventsOf(log, { "list", "upload", "delete" }) = {}
                         /\ established' = "read_only" => ret'.exc.type = "PermissionError"
              ELSE connects = {}]_vars

\* A mutating call on a fresh process has connected read-only and raised
\* PermissionError.
C3_Witness ==
    /\ ret.op \in MutatingOps
    /\ Len(ret.log) = 2
    /\ ret.log[1] = Event("connect_s3", ConnectArgs("cidl-test", "primary", TRUE))
    /\ ret.log[2].ev = "probe"
    /\ established = "read_only"
    /\ ret.exc.type = "PermissionError"

(***************************************************************************)
(* Properties of the caches (SpecLoader).                                  *)
(***************************************************************************)
\* C4: of two consecutive _download_file(k, use_cache=True) calls the first
\* of which returned, the second returns the same bytes and sends no request
\* at all, and the first sent at most one download request; this holds also
\* when the object was rewritten or deleted between the two calls.
C4_SecondFetchFromCache ==
    ( /\ prev.op = "_download_file" /\ ret.op = "_download_file"
      /\ prev.args.key = ret.args.key
      /\ prev.args.use_cache /\ ret.args.use_cache
      /\ prev.exc = NoExc )
    => /\ ret.exc = NoExc
       /\ ret.val = prev.val
       /\ ret.log = << >>
       /\ Cardinality(EventsOf(prev.log, { "download" })) <= 1

\* The second of two cached fetches has returned the bytes of the first
\* although the store holds other bytes, or none, by now.
C4_Witness ==
    /\ prev.op = "_download_file" /\ ret.op = "_download_file"
    /\ prev.args.key = ret.args.key
    /\ prev.args.use_cache /\ ret.args.use_cache
    /\ prev.exc = NoExc /\ ret.exc = NoExc
    /\ Cardinality(EventsOf(prev.log, { "download" })) = 1
    /\ store[ret.args.key] # ret.val

\* C5: an entry of _CACHE or _META_CACHE is never removed and its value never
\* changes, whatever call (with use_cache true or false) or change of the
\* store or of the local file follows.
C5_CachesWriteOnce ==
    [][/\ \A k \in DOMAIN _CACHE : k \in DOMAIN _CACHE' /\ _CACHE'[k] = _CACHE[k]
       /\ \A k \in DOMAIN _META_CACHE :
             k \in DOMAIN _META_CACHE' /\ _META_CACHE'[k] = _META_CACHE[k]]_vars

\* An uncached fetch has returned the current bytes of an object while
\* _CACHE keeps the older ones, and _META_CACHE keeps a document that the
\* local file no longer holds.
C5_Witness ==
    /\ ret.op = "_download_file" /\ ~ret.args.use_cache /\ ret.exc = NoExc
    /\ ret.args.key \in DOMAIN _CACHE
    /\ ret.val # _CACHE[ret.args.key]
    /\ DEFAULT_ACIC22_METADATA \in DOMAIN _META_CACHE
    /\ localfs[DEFAULT_ACIC22_METADATA] \in JsonPayloads
    /\ _META_CACHE[DEFAULT_ACIC22_METADATA] # JsonLoads(localfs[DEFAULT_ACIC22_METADATA])

(***************************************************************************)
(* Properties of the truth bundles (SpecTruth).                            *)
(***************************************************************************)
TruthOps == { "load_truths", "truth_for_simulations" }
IsAscending(seq) == \A i \in 1..(Len(seq) - 1) : seq[i] < seq[i + 1]
\* The download requests of a log for the truth object of index i.
Fetches(log, i) ==
    { j \in DOMAIN log : log[j] = Event("download", _truth_key(i, DEFAULT_TRUTH_PREFIX)) }
\* How the store answers the download of the truth object of index i during
\* the call that ended, and whether an answer reports the object not found.
Answer(i) ==
    LET key == _truth_key(i, DEFAULT_TRUTH_PREFIX)
    IN  IF FaultOf(ret.args.faults, key) # NoExc THEN FaultOf(ret.args.faults, key)
        ELSE IF store[key] = Absent THEN ClientError("404", "Not Found")
        ELSE NoExc
NotFoundOutcome(e) ==
    \/ e.type = "FileNotFoundError"
    \/ e.type = "ClientError"
         /\ (e.code \in { "404", "NoSuchKey", "NotFound" } \/ e.text = "Not Found")
ReportedNotFound == { i \in TruthIdx : Fetches(ret.log, i) # {} /\ NotFoundOutcome(Answer(i)) }
\* The warnings of a list that name the missing truth file of index i.
Naming(warnings, i) ==
    { j \in DOMAIN warnings :
        warnings[j].msg = "Truth file not found for index" /\ warnings[j].idx = i }
MismatchDiagnostics(warnings) ==
    { j \in DOMAIN warnings :
        warnings[j].msg \in { "Truth/Simulation mismatch detected.", NonInteractiveMessage.msg } }

\* C6: every bundle load_truths or truth_for_simulations returns has
\* missing_for_simulations = simulation_indices minus keys(truth) and
\* extra_truth = keys(truth) minus simulation_indices, and is_full_match holds
\* exactly when both differences are empty.
C6_BundleDifferences ==
    (ret.op \in TruthOps /\ ret.exc = NoExc) =>
        LET b == ret.val
            sims == Range(b.simulation_indices)
            keys == DOMAIN b.truth
        IN  /\ b.missing_for_simulations = SortedSeq(sims \ keys)
            /\ b.extra_truth = SortedSeq(keys \ sims)
            /\ is_full_match(b) <=> (sims \ keys = {} /\ keys \ sims = {})

\* A returned bundle with a simulation that has no truth and a truth that has
\* no simulation.
C6_Witness ==
    /\ ret.op = "truth_for_simulations" /\ ret.exc = NoExc
    /\ ret.val.missing_for_simulations = << 5, 7 >>
    /\ ret.val.extra_truth = << 9 >>
    /\ DOMAIN ret.val.truth = { 6, 9 }

\* C7: in every returned bundle truth_indices_loaded is keys(truth) in
\* ascending order without duplicates and a subset of truth_indices_requested;
\* simulation_indices and truth_indices_requested are ascending without
\* duplicates; and no call downloads the truth object of an index twice.
C7_IndicesNormalized ==
    ret.op \in TruthOps =>
        /\ \A i \in TruthIdx : Cardinality(Fetches(ret.log, i)) <= 1
        /\ ret.exc = NoExc =>
              LET b == ret.val
                  loaded == truth_indices_loaded(b)
              IN  /\ IsAscending(loaded)
                  /\ Range(loaded) = DOMAIN b.truth
                  /\ Range(loaded) \subseteq Range(b.truth_indices_requested)
                  /\ IsAscending(b.simulation_indices)
                  /\ IsAscending(b.truth_indices_requested)

\* load_truths([6, 5, "6"], use_cache=False) has returned both objects,
\* each downloaded once.
C7_Witness ==
    /\ ret.op = "load_truths" /\ ret.exc = NoExc
    /\ ret.args.indices = ListOf(<< IntItem(6), IntItem(5), StrItem("6") >>)
    /\ ~ret.args.use_cache
    /\ ret.val.truth_indices_requested = << 5, 6 >>
    /\ truth_indices_loaded(ret.val) = << 5, 6 >>
    /\ Cardinality(Fetches(ret.log, 6)) = 1

\* The indices a load_truths call was asked for, and those among them that
\* the call found loadable: in _CACHE, or answered with the object.
Requested == { int(ret.args.indices.items[k]) : k \in DOMAIN ret.args.indices.items }
Loadable(i) ==
    \/ ret.args.use_cache /\ _truth_key(i, DEFAULT_TRUTH_PREFIX) \in DOMAIN _CACHE
    \/ Answer(i) = NoExc

\* C8: load_truths applies on_missing to every requested index whose object
\* the store reports not found.  warn: the index is in missing_truth_files,
\* one warning naming it is emitted and is in the bundle's warnings, and the
\* loading goes on.  error: FileNotFoundError is raised at the first such
\* index in ascending order, no later index is fetched, no bundle is
\* returned.  ignore: no warning, and the loading goes on.
C8_MissingPolicy ==
    (ret.op = "load_truths" /\ ret.args.on_missing \in VALID_ON_MISSING) =>
        LET b == ret.val
            continued ==
                ret.exc = NoExc =>
                    /\ Range(b.truth_indices_requested) = DOMAIN b.truth \cup ReportedNotFound
                    /\ DOMAIN b.truth \cap ReportedNotFound = {}
        IN  CASE ret.args.on_missing = "warn" ->
                   /\ ~(ret.exc.type = "FileNotFoundError" /\ "msg" \in DOMAIN ret.exc)
                   /\ \A i \in ReportedNotFound : Cardinality(Naming(ret.warned, i)) = 1
                   /\ Len(ret.warned) = Cardinality(ReportedNotFound)
                   /\ ret.exc = NoExc =>
                         /\ \A i \in ReportedNotFound :
                               /\ i \in Range(b.missing_truth_files)
                               /\ Cardinality(Naming(b.warnings, i)) = 1
                         /\ b.warnings = ret.warned
                   /\ continued
              [] ret.args.on_missing = "error" ->
                   /\ ret.warned = << >>
                   /\ ReportedNotFound # {} =>
                         /\ ret.exc.type = "FileNotFoundError"
                         /\ ret.val = None
                         /\ ReportedNotFound = { ret.exc.msg.idx }
                         /\ \A i \in Requested :
                               /\ i < ret.exc.msg.idx => Loadable(i)
                               /\ i > ret.exc.msg.idx => Fetches(ret.log, i) = {}
              [] ret.args.on_missing = "ignore" ->
                   /\ ~(ret.exc.type = "FileNotFoundError" /\ "msg" \in DOMAIN ret.exc)
                   /\ ret.warned = << >>
                   /\ ret.exc = NoExc => b.warnings = << >>
                   /\ continued

\* Under error, load_truths has raised for index 5 and has not fetched
\* index 6, whose object the store holds.
C8_Witness ==
    /\ ret.op = "load_truths" /\ ret.args.on_missing = "error"
    /\ ret.exc.type = "FileNotFoundError"
    /\ "msg" \in DOMAIN ret.exc /\ ret.exc.msg.idx = 5
    /\ Requested = { 5, 6 }
    /\ Fetches(ret.log, 5) # {} /\ Fetches(ret.log, 6) = {}
    /\ store[_truth_key(6, DEFAULT_TRUTH_PREFIX)] # Absent

\* C9: in load_truths and truth_for_simulations, a download that fails with
\* anything but a not-found answer ends the call with that error under every
\* on_missing value; no bundle is returned, so nothing records the index in
\* missing_truth_files.
C9_OtherFailuresPropagate ==
    ret.op \in TruthOps =>
        \A i \in TruthIdx :
            (Fetches(ret.log, i) # {} /\ Answer(i) # NoExc /\ ~NotFoundOutcome(Answer(i)))
                => (ret.exc = Answer(i) /\ ret.val = None)

\* Under ignore, truth_for_simulations skipped the missing index 5 and then
\* raised the AccessDenied error of index 6.
C9_Witness ==
    /\ ret.op = "truth_for_simulations" /\ ret.args.on_missing = "ignore"
    /\ ret.exc = ClientError("AccessDenied", "")
    /\ Fetches(ret.log, 5) # {} /\ Answer(5) = ClientError("404", "Not Found")
    /\ Fetches(ret.log, 6) # {}

\* C10: truth_for_simulations without truth_indices requests the truth of
\* exactly the simulation keys, returns extra_truth empty and never applies
\* the mismatch policy: no mismatch diagnostic, no prompt, no error for the
\* mismatch, whatever on_mismatch is; the call returns a bundle whenever the
\* loading itself does not fail.  With simulations {5,6,7}, a store holding
\* {5,6} and on_missing=warn: loaded [5,6], missing_for_simulations [7],
\* extra_truth [], not a full match, one warning, for index 7.
C10_AutomaticMode ==
    (ret.op = "truth_for_simulations" /\ ret.args.truth_indices = None) =>
        LET b == ret.val
            a == ret.args
            loading_fails ==
                \/ ~IsMapping(a.simulations)
                \/ EventsOf(ret.log, { "connect_s3" }) # {} /\ a.env # GoodEnv
                \/ \E i \in TruthIdx :
                      /\ Fetches(ret.log, i) # {} /\ Answer(i) # NoExc
                      /\ ~NotFoundOutcome(Answer(i)) \/ a.on_missing \notin { "warn", "ignore" }
        IN  /\ ~ret.prompted
            /\ MismatchDiagnostics(ret.warned) = {}
            /\ ~(ret.exc.type = "ValueError" /\ "msg" \in DOMAIN ret.exc)
            /\ ret.exc.code \notin { "on_mismatch must be one of",
                                     "Aborted by user due to truth/simulation mismatch." }
            /\ ~loading_fails => ret.exc = NoExc
            /\ ret.exc = NoExc =>
                  /\ b.truth_indices_requested = b.simulation_indices
                  /\ b.extra_truth = << >>
                  /\ MismatchDiagnostics(b.warnings) = {}
            /\ ( /\ a.simulations = MappingOf(<< IntItem(7), IntItem(5), IntItem(6) >>)
                 /\ { i \in TruthIdx : Answer(i) = NoExc } = { 5, 6 }
                 /\ a.faults = NoFaults /\ ~loading_fails /\ a.on_missing = "warn" )
               => /\ truth_indices_loaded(b) = << 5, 6 >>
                  /\ b.missing_for_simulations = << 7 >>
                  /\ b.extra_truth = << >>
                  /\ ~is_full_match(b)
                  /\ b.warnings = << MissingFileMessage(7, _truth_key(7, DEFAULT_TRUTH_PREFIX)) >>

\* The scenario under on_mismatch=error: the bundle is returned.
C10_Witness ==
    /\ ret.op = "truth_for_simulations" /\ ret.args.truth_indices = None
    /\ ret.args.on_mismatch = "error" /\ ret.args.on_missing = "warn"
    /\ ret.args.simulations = MappingOf(<< IntItem(7), IntItem(5), IntItem(6) >>)
    /\ ret.exc = NoExc
    /\ truth_indices_loaded(ret.val) = << 5, 6 >>
    /\ ret.val.missing_for_simulations = << 7 >>
    /\ Len(ret.val.warnings) = 1

\* An explicit-mode call of truth_for_simulations: the simulation keys, the
\* truth indices asked for, whether the loading ends the call before the
\* comparison, and the truth indices the loading yields otherwise.
SimulationKeys ==
    { int(ret.args.simulations.items[k]) : k \in DOMAIN ret.args.simulations.items }
TruthRequested ==
    { int(ret.args.truth_indices.items[k]) : k \in DOMAIN ret.args.truth_indices.items }
TruthLoadingFails ==
    \/ ~IsMapping(ret.args.simulations)
    \/ \E k \in DOMAIN ret.args.truth_indices.items :
          ~ConvertsToInt(ret.args.truth_indices.items[k])
    \/ EventsOf(ret.log, { "connect_s3" }) # {} /\ ret.args.env # GoodEnv
    \/ \E i \in TruthIdx :
          /\ Fetches(ret.log, i) # {} /\ Answer(i) # NoExc
          /\ ~NotFoundOutcome(Answer(i)) \/ ret.args.on_missing \notin { "warn", "ignore" }
TruthLoaded == { i \in TruthRequested : Loadable(i) }
MismatchLines(warnings) ==
    { j \in DOMAIN warnings : warnings[j].msg = "Truth/Simulation mismatch detected." }

\* C11: truth_for_simulations with explicit truth_indices applies on_mismatch
\* exactly when, after the loading, the simulation keys and the loaded truth
\* indices differ.  error: ValueError carrying the diagnostic is raised and no
\* bundle is returned.  warn: the diagnostic is emitted once, appended to the
\* bundle's warnings, and the bundle is returned (with prompt=false; the
\* prompt is the subject of C12).  ignore: nothing is recorded and the bundle
\* is returned.  When the two sets are equal no policy action occurs, whatever
\* on_mismatch is.
C11_MismatchPolicy ==
    (ret.op = "truth_for_simulations" /\ ret.args.truth_indices # None /\ ~TruthLoadingFails) =>
        LET b == ret.val
            a == ret.args
        IN  IF SimulationKeys = TruthLoaded
            THEN /\ ret.exc = NoExc
                 /\ ~ret.prompted
                 /\ MismatchDiagnostics(ret.warned) = {}
                 /\ MismatchDiagnostics(b.warnings) = {}
                 /\ is_full_match(b)
            ELSE CASE a.on_mismatch = "error" ->
                        /\ ret.exc.type = "ValueError" /\ "msg" \in DOMAIN ret.exc
                        /\ ret.exc.msg.msg = "Truth/Simulation mismatch detected."
                        /\ ret.exc.msg.parts[1].of = SortedSeq(SimulationKeys)
                        /\ ret.exc.msg.parts[2].of = SortedSeq(TruthLoaded)
                        /\ ret.val = None
                        /\ MismatchDiagnostics(ret.warned) = {}
                   [] a.on_mismatch = "warn" ->
                        /\ Cardinality(MismatchLines(ret.warned)) = 1
                        /\ ~a.prompt => ret.exc = NoExc
                        /\ ret.exc = NoExc =>
                              /\ Cardinality(MismatchLines(b.warnings)) = 1
                              /\ b.warnings = ret.warned
                              /\ ~is_full_match(b)
                              /\ DOMAIN b.truth = TruthLoaded
                   [] a.on_mismatch = "ignore" ->
                        /\ ret.exc = NoExc
                        /\ MismatchDiagnostics(ret.warned) = {}
                        /\ MismatchDiagnostics(b.warnings) = {}
                        /\ ~is_full_match(b)
                   [] OTHER ->
                        ret.exc = Exc("ValueError", "on_mismatch must be one of", "")

\* truth_indices [5, 6, 9] against the simulations {5, 6, 7} under
\* on_mismatch=error, with a store that holds 5 and 6: ValueError with the
\* diagnostic, no bundle.
C11_Witness ==
    /\ ret.op = "truth_for_simulations" /\ ret.args.on_mismatch = "error"
    /\ ret.args.truth_indices = ListOf(<< IntItem(5), IntItem(6), IntItem(9) >>)
    /\ ret.args.simulations = MappingOf(<< IntItem(7), IntItem(5), IntItem(6) >>)
    /\ ret.exc.type = "ValueError" /\ "msg" \in DOMAIN ret.exc
    /\ ret.exc.msg.parts[1].of = << 5, 6, 7 >>
    /\ ret.exc.msg.parts[2].of = << 5, 6 >>
    /\ ret.val = None

\* C12: a call reads from the terminal only if it is truth_for_simulations
\* with prompt=true, on_mismatch=warn, explicit truth_indices whose loaded set
\* differs from the simulation keys, and an interactive terminal.  With
\* prompt=true and a non-interactive terminal nothing is read: on such a
\* mismatch the degradation is emitted and recorded as the last warning, after
\* the diagnostic, and the bundle is returned.
C12_PromptOnlyWhenInteractive ==
    /\ ret.op = "load_truths" => ~ret.prompted
    /\ ret.op = "truth_for_simulations" =>
          LET a == ret.args
              b == ret.val
              applies ==
                  /\ a.truth_indices # None /\ ~TruthLoadingFails
                  /\ SimulationKeys # TruthLoaded
                  /\ a.on_mismatch = "warn" /\ a.prompt
          IN  /\ ret.prompted <=> (applies /\ a.terminal.isatty)
              /\ (applies /\ ~a.terminal.isatty) =>
                    /\ ret.exc = NoExc
                    /\ ret.warned[Len(ret.warned)] = NonInteractiveMessage
                    /\ b.warnings[Len(b.warnings)] = NonInteractiveMessage
                    /\ MismatchLines(b.warnings) = { Len(b.warnings) - 1 }
                    /\ b.warnings = ret.warned

\* prompt=true without an interactive terminal: the bundle is returned with
\* the diagnostic and the degradation notice, and nothing was read.
C12_Witness ==
    /\ ret.op = "truth_for_simulations" /\ ret.exc = NoExc
    /\ ret.args.prompt /\ ~ret.args.terminal.isatty
    /\ ~ret.prompted
    /\ Len(ret.val.warnings) >= 2
    /\ ret.val.warnings[Len(ret.val.warnings)] = NonInteractiveMessage
    /\ ret.val.missing_for_simulations # << >>

\* C13: load_truths raises TypeError when its indices argument is a keyed
\* mapping, and truth_for_simulations raises TypeError when its simulations
\* argument is not one (a list, None); in both cases no request is sent, so no
\* truth object is fetched, and the session and both caches stay as they were.
C13_ArgumentShape ==
    [][(/\ ret.op = "none"
        /\ \/ ret'.op = "load_truths" /\ IsMapping(ret'.args.indices)
           \/ ret'.op = "truth_for_simulations" /\ ~IsMapping(ret'.args.simulations))
          => /\ ret'.exc.type = "TypeError"
             /\ ret'.val = None
             /\ ret'.log = << >> /\ ret'.warned = << >>
             /\ UNCHANGED << _S3, _BUCKET, _CACHE, _META_CACHE, store >>]_vars

\* truth_for_simulations was handed a list while the cache held a truth
\* object: TypeError, nothing requested.
C13_Witness ==
    /\ ret.op = "truth_for_simulations"
    /\ ret.args.simulations = ListOf(<< IntItem(5) >>)
    /\ ret.exc.type = "TypeError"
    /\ ret.log = << >>
    /\ _CACHE # << >>

(***************************************************************************)
(* Properties of the selection by difficulty (SpecSelect).                 *)
(***************************************************************************)
\* The parsed document that the call that ended used for a source: the entry
\* of _META_CACHE with use_cache, what the store holds without.
SeenJson(source) ==
    IF ret.args.use_cache THEN _META_CACHE[source] ELSE JsonLoads(store[source])
MetaSeen == Range(SeenJson(DEFAULT_ACIC22_METADATA).list)
DgpSeen == Range(SeenJson(DEFAULT_ACIC22_DGP_INFO).dgps.list)
\* The indices of the metadata records, and those whose generator has a
\* record with a tier among tiers.
AllIndices == { rec.index : rec \in MetaSeen }
IndicesOfTiers(tiers) ==
    { rec.index : rec \in
        { q \in MetaSeen :
            /\ "dgp" \in DOMAIN q
            /\ \E g \in DgpSeen :
                  /\ g.dgp = q.dgp
                  /\ "difficulty_tier" \in DOMAIN g
                  /\ g.difficulty_tier \in tiers } }

\* C14: a call of _indices_for_difficulty that returns, returns in ascending
\* order all indices of the metadata when the tier set its difficulty
\* resolves to is None, and otherwise exactly the indices whose generator id
\* is that of a generator record with a tier in the set.  With the metadata
\* {1: generator 10, 2: generator 20} and the generators {10: easy, 20: hard}
\* the result is [1] for easy and [1, 2] for all.
C14_EligibleIndices ==
    (ret.op = "_indices_for_difficulty" /\ ret.exc = NoExc) =>
        LET resolved == _difficulty_to_tiers(World, ret.args.difficulty).val
        IN  /\ IsAscending(ret.val)
            /\ Range(ret.val) =
                  IF resolved = None THEN AllIndices ELSE IndicesOfTiers(resolved.tiers)
            /\ ( /\ SeenJson(DEFAULT_ACIC22_METADATA) = JsonLoads("meta_1")
                 /\ SeenJson(DEFAULT_ACIC22_DGP_INFO) = JsonLoads("dgp_1") )
               => /\ ret.args.difficulty = StrItem("easy") => ret.val = << 1 >>
                  /\ ret.args.difficulty = StrItem("all") => ret.val = << 1, 2 >>

\* The scenario, read from the store: easy selects index 1 only.
C14_Witness ==
    /\ ret.op = "_indices_for_difficulty" /\ ret.exc = NoExc
    /\ ~ret.args.use_cache
    /\ store[DEFAULT_ACIC22_METADATA] = "meta_1" /\ store[DEFAULT_ACIC22_DGP_INFO] = "dgp_1"
    /\ ret.args.difficulty = StrItem("easy")
    /\ ret.val = << 1 >>

\* C15: _difficulty_to_tiers resolves None to None and any other difficulty
\* by its text with the surrounding whitespace stripped: a text outside the
\* six labels raises ValueError, "all" resolves to None, and every other
\* label to the set of exactly that label, so that labels that differ after
\* stripping have disjoint tier sets.  Nothing is requested or changed.
C15_ResolveDifficulty ==
    ret.op = "_difficulty_to_tiers" =>
        LET difficulty == ret.args.difficulty
            label == StripLabel(difficulty.str)
        IN  /\ ret.log = << >>
            /\ IF difficulty = None THEN ret.exc = NoExc /\ ret.val = None
               ELSE IF label \notin VALID_DIFFICULTIES
               THEN ret.exc.type = "ValueError" /\ ret.val = None
               ELSE IF label = "all" THEN ret.exc = NoExc /\ ret.val = None
               ELSE /\ ret.exc = NoExc
                    /\ ret.val = [ tiers |-> { label } ]
                    /\ \A other \in Difficulties \ { None } :
                          LET o == _difficulty_to_tiers(World, other)
                          IN  (o.exc = NoExc /\ o.val # None
                                 /\ StripLabel(other.str) # label)
                                => o.val.tiers \cap ret.val.tiers = {}

\* "very_easy" has resolved to its own tier only.
C15_Witness ==
    /\ ret.op = "_difficulty_to_tiers" /\ ret.exc = NoExc
    /\ ret.args.difficulty = StrItem("very_easy")
    /\ ret.val = [ tiers |-> { "very_easy" } ]

\* C15 as the specification states it: membership of the label as given in
\* the set of the six labels, ValueError for every label outside the set, and
\* disjoint tier sets for distinct labels.
C15_StrictMembership ==
    (ret.op = "_difficulty_to_tiers" /\ ret.args.difficulty # None) =>
        LET label == ret.args.difficulty.str
        IN  IF label \notin VALID_DIFFICULTIES
            THEN ret.exc.type = "ValueError"
            ELSE IF label = "all" THEN ret.exc = NoExc /\ ret.val = None
            ELSE /\ ret.exc = NoExc
                 /\ ret.val = [ tiers |-> { label } ]
                 /\ \A other \in Difficulties \ { None } :
                       LET o == _difficulty_to_tiers(World, other)
                       IN  (o.exc = NoExc /\ o.val # None /\ other.str # label)
                             => o.val.tiers \cap ret.val.tiers = {}

\* A load_random_simulations call that ended: whether n is a positive int,
\* whether the implicit connect failed, whether the call obtained both
\* documents, the eligible indices of its difficulty, and its downloads of
\* simulations.
PositiveInt(n) == "int" \in DOMAIN n /\ n.int > 0
ConnectFailed == EventsOf(ret.log, { "connect_s3" }) # {} /\ ret.args.env # GoodEnv
DocumentsObtained ==
    IF ret.args.use_cache
    THEN MetaKeys \subseteq DOMAIN _META_CACHE
    ELSE ~ConnectFailed /\ \A k \in MetaKeys : store[k] # Absent
Eligible ==
    LET resolved == _difficulty_to_tiers(World, ret.args.difficulty).val
    IN  IF resolved = None THEN AllIndices ELSE IndicesOfTiers(resolved.tiers)
SimDownloads == { j \in DOMAIN ret.log : ret.log[j].ev = "download" /\ ret.log[j].key \in SimKeys }
LoadRandomOutcome ==
    LET a == ret.args
        valid == ~Raised(_difficulty_to_tiers(World, a.difficulty))
    IN  IF ~PositiveInt(a.n)
        THEN /\ ret.exc = Exc("ValueError", "n must be a positive integer.", "")
             /\ ret.val = None /\ ret.log = << >>
        ELSE /\ (DocumentsObtained /\ valid /\ a.n.int > Cardinality(Eligible)) =>
                   /\ ret.exc = Exc("ValueError", "Requested n, but only len(eligible) available", "")
                   /\ ret.val = None /\ SimDownloads = {}
             /\ (DocumentsObtained /\ valid /\ a.n.int <= Cardinality(Eligible)
                   /\ ~ConnectFailed) => ret.exc = NoExc
             /\ ret.exc = NoExc =>
                   /\ Len(ret.val.order) = a.n.int
                   /\ IsAscending(ret.val.order)
                   /\ Range(ret.val.order) \subseteq Eligible
                   /\ DOMAIN ret.val.item = Range(ret.val.order)

\* C16: load_random_simulations raises ValueError when n is not a positive
\* int, before anything is requested or cached, and when n exceeds the number
\* of eligible indices of the difficulty, and then no simulation is
\* downloaded or cached; otherwise a returned mapping has exactly n distinct
\* keys, all eligible, in ascending order.
C16_LoadRandom ==
    [][(ret.op = "none" /\ ret'.op = "load_random_simulations") =>
          /\ LoadRandomOutcome'
          /\ ~PositiveInt(ret'.args.n) => UNCHANGED << _S3, _BUCKET, _CACHE, _META_CACHE >>
          /\ ret'.exc.type = "ValueError" =>
                \A k \in SimKeys : k \in DOMAIN _CACHE' => k \in DOMAIN _CACHE]_vars

\* n = 2 exceeded the one index eligible for easy: ValueError after the
\* documents were read, no simulation downloaded.
C16_Witness ==
    /\ ret.op = "load_random_simulations"
    /\ ret.args.n = IntItem(2) /\ ret.args.difficulty = StrItem("easy")
    /\ ret.exc = Exc("ValueError", "Requested n, but only len(eligible) available", "")
    /\ Eligible = { 1 }
    /\ EventsOf(ret.log, { "download" }) # {} /\ SimDownloads = {}

\* C17: a returning call of load_random_simulations with an explicit seed
\* returns, in ascending order, the sample that the seed, n and the eligible
\* indices of the documents it read determine: whatever the caches, the
\* session, the entropy of the system and the calls before it are.  Two calls
\* with the same n, difficulty and seed that read the same documents therefore
\* return the same indices in the same order.
C17_SeedDeterminesSample ==
    (ret.op = "load_random_simulations" /\ ret.exc = NoExc /\ ret.args.seed # None) =>
        /\ ret.val.order =
              SortedSeq(Sample(ret.args.seed.int, SortedSeq(Eligible), ret.args.n.int))
        /\ DOMAIN ret.val.item = Range(ret.val.order)

\* With seed 1 and n 1 the call returned simulation 2 of the eligible 1 and
\* 2, from caches filled by calls before it, while the entropy of the system
\* would have drawn simulation 1.
C17_Witness ==
    /\ ret.op = "load_random_simulations" /\ ret.exc = NoExc
    /\ ret.args.seed = IntItem(1) /\ ret.args.n = IntItem(1) /\ ret.args.entropy = 0
    /\ Eligible = { 1, 2 }
    /\ ret.val.order = << 2 >>
    /\ ret.log = << >>

(***************************************************************************)
(* Properties of the bulk loaders (SpecBulk).                              *)
(***************************************************************************)
\* A load_simulations call that ended.  Whether it obtained the metadata; the
\* file name and the key of an index by the metadata it read; whether the
\* bytes of a key were there for the call (in _CACHE, or sent by the store)
\* and parsed; and the keys it downloaded, in the order of the requests.
MetadataObtained ==
    IF ret.args.use_cache THEN DEFAULT_ACIC22_METADATA \in DOMAIN _META_CACHE
    ELSE store[DEFAULT_ACIC22_METADATA] # Absent
NameOf(idx) ==
    IF \E rec \in MetaSeen : rec.index = idx /\ "filename" \in DOMAIN rec
    THEN (CHOOSE rec \in MetaSeen : rec.index = idx /\ "filename" \in DOMAIN rec).filename
    ELSE "sim_" \o Pad4(idx) \o ".parquet"
KeyAt(q) == DEFAULT_SIM_PREFIX \o "/" \o NameOf(ret.args.indices[q].int)
FetchError(key) ==
    IF ret.args.use_cache /\ key \in DOMAIN _CACHE THEN NoExc
    ELSE IF FaultOf(ret.args.faults, key) # NoExc THEN FaultOf(ret.args.faults, key)
    ELSE IF store[key] = Absent THEN ClientError("404", "Not Found")
    ELSE NoExc
BytesOf(key) ==
    IF ret.args.use_cache /\ key \in DOMAIN _CACHE THEN _CACHE[key] ELSE store[key]
LoadError(key) ==
    IF FetchError(key) # NoExc THEN FetchError(key)
    ELSE IF BytesOf(key) \notin Frames THEN Exc("ArrowInvalid", "not a parquet file", "")
    ELSE NoExc
RECURSIVE DownloadedKeys(_, _)
DownloadedKeys(log, i) ==
    IF i > Len(log) THEN << >>
    ELSE (IF log[i].ev = "download" /\ log[i].key \in SimKeys THEN << log[i].key >> ELSE << >>)
         \o DownloadedKeys(log, i + 1)

\* C18: load_simulations isolates no failure.  When the fetch or the parse of
\* an index fails, the call ends with that error and returns no mapping, and
\* no index after the first failing one in input order is fetched; when none
\* fails, the keys of the returned mapping are the requested indices.
C18_NoPartialResult ==
    (ret.op = "load_simulations" /\ ~ConnectFailed /\ MetadataObtained) =>
        LET indices == ret.args.indices
            failing == { q \in DOMAIN indices : LoadError(KeyAt(q)) # NoExc }
        IN  IF failing = {}
            THEN /\ ret.exc = NoExc
                 /\ DOMAIN ret.val.item = { indices[q].int : q \in DOMAIN indices }
                 /\ ~ret.args.use_cache =>
                       DownloadedKeys(ret.log, 1) = [ q \in DOMAIN indices |-> KeyAt(q) ]
            ELSE LET p == CHOOSE q \in failing : \A r \in failing : q <= r
                 IN  /\ ret.exc = LoadError(KeyAt(p))
                     /\ ret.val = None
                     /\ \A q \in DOMAIN indices :
                           (q > p /\ \A r \in 1..p : KeyAt(r) # KeyAt(q))
                             => KeyAt(q) \notin Range(DownloadedKeys(ret.log, 1))
                     /\ ~ret.args.use_cache =>
                           DownloadedKeys(ret.log, 1) = [ q \in 1..p |-> KeyAt(q) ]

\* load_simulations([2, 1]) where the object of simulation 2 is missing: the
\* 404 ended the call, and simulation 1, which the store holds, was not fetched.
C18_Witness ==
    /\ ret.op = "load_simulations"
    /\ ret.args.indices = << IntItem(2), IntItem(1) >>
    /\ ret.exc = ClientError("404", "Not Found") /\ ret.val = None
    /\ store[Sim1Key] # Absent
    /\ DownloadedKeys(ret.log, 1) = << Sim2Key >>

\* C19: load_simulations fetches an index whose metadata record carries a
\* filename under that filename and any other index under sim_%04d.parquet;
\* and when the metadata document cannot be obtained it still loads every
\* index under the conventional name.
C19_FilenameResolution ==
    (ret.op = "load_simulations" /\ ~ConnectFailed) =>
        LET indices == ret.args.indices
            ConventionKey(q) == DEFAULT_SIM_PREFIX \o "/" \o SimFilename(indices[q].int)
        IN  IF MetadataObtained
            THEN ret.exc = NoExc =>
                    \A q \in DOMAIN indices :
                        LET rec == { m \in MetaSeen : m.index = indices[q].int /\ "filename" \in DOMAIN m }
                            key == IF rec = {} THEN ConventionKey(q)
                                   ELSE DEFAULT_SIM_PREFIX \o "/" \o (CHOOSE m \in rec : TRUE).filename
                        IN  /\ ret.val.item[indices[q].int] = DataFrame(BytesOf(key))
                            /\ ~ret.args.use_cache => key \in Range(DownloadedKeys(ret.log, 1))
            ELSE (\A q \in DOMAIN indices : LoadError(ConventionKey(q)) = NoExc) =>
                    /\ ret.exc = NoExc
                    /\ \A q \in DOMAIN indices :
                          ret.val.item[indices[q].int] = DataFrame(BytesOf(ConventionKey(q)))

\* C20: load_prefix isolates the failure of a key.  A call that connected and
\* whose listing was answered returns a mapping whose keys are exactly the
\* keys, among the first limit of the listing (all of them without a limit),
\* whose fetch and parse succeeded, in listing order; a failing key is left
\* out and every key after it is still attempted.
C20_PrefixIsolation ==
    (/\ ret.op = "load_prefix" /\ ~ConnectFailed
     /\ FaultOf(ret.args.faults, "list") = NoExc
     /\ ret.args.limit = None \/ ret.args.limit.int >= 0) =>
        LET listing == SelectKeys(store, ret.args.prefix, 1)
            count == IF ret.args.limit = None \/ ret.args.limit.int > Len(listing)
                     THEN Len(listing) ELSE ret.args.limit.int
            loaded(k) == /\ FetchError(listing[k]) = NoExc
                         /\ listing[k] \in SimKeys /\ BytesOf(listing[k]) \in Frames
        IN  /\ ret.exc = NoExc
            /\ DOMAIN ret.val.item = { listing[k] : k \in { j \in 1..count : loaded(j) } }
            /\ \A i, j \in DOMAIN ret.val.order :
                  i < j => \E k, l \in 1..count :
                              k < l /\ listing[k] = ret.val.order[i] /\ listing[l] = ret.val.order[j]
            /\ \A k \in 1..count :
                  /\ loaded(k) => ret.val.item[listing[k]] = DataFrame(BytesOf(listing[k]))
                  /\ \/ ret.args.use_cache /\ listing[k] \in DOMAIN _CACHE
                     \/ Event("download", listing[k]) \in Range(ret.log)

\* Of notes.txt and two simulations, the text file did not parse and the
\* request for simulation 1 failed: the mapping holds simulation 2 alone.
C20_Witness ==
    /\ ret.op = "load_prefix" /\ ret.exc = NoExc
    /\ ret.args.prefix = DEFAULT_SIM_PREFIX /\ ret.args.limit = None
    /\ Sim1Key \in DOMAIN ret.args.faults
    /\ ret.val.order = << Sim2Key >>
    /\ Event("download", NotesKey) \in Range(ret.log)
    /\ Event("download", Sim1Key) \in Range(ret.log)

(***************************************************************************)
(* Properties of the metadata loaders (SpecSchema).                        *)
(***************************************************************************)
RequiredOfSimulation == { "index", "filename", "dgp" }
RequiredOfGenerator == { "dgp", "difficulty_tier" }

\* The parsed document the call that ended validated, when it obtained one.
DocumentSeen == SeenJson(ret.args.source)
DocumentValidated == ret.exc = NoExc \/ ret.exc.type = "ValueError"
RecordsOf(doc) == IF IsList(doc) THEN doc.list ELSE doc.dgps.list
\* The shape _load_acic22_metadata and _load_dgp_info ask of a document.
ShapeOfIndex(doc) == IsList(doc)
ShapeOfGenerators(doc) ==
    ~IsList(doc) /\ "dgps" \in DOMAIN doc /\ IsList(doc.dgps)
KeyedBy(doc, field) == \A i \in DOMAIN RecordsOf(doc) : field \in DOMAIN RecordsOf(doc)[i]

PatternsOf(extensions) ==
    IF extensions = None THEN DefaultExtensions ELSE extensions.list
Matching(extensions) ==
    { LocalNames[i] : i \in { i \in DOMAIN LocalNames :
          \E j \in DOMAIN PatternsOf(extensions) :
              GlobMatch(LocalNames[i], PatternsOf(extensions)[j]) } }
\* The number of transfers the call that ended started for a key.
UploadsOf(log, key) == Len(SelectSeq(log, LAMBDA e : e = Event("upload", key)))

\* C22 (as stated): an upload_directory call that returns has started exactly
\* one transfer for every local file that matches a pattern and whose key
\* prefix/name was not in the bucket at the start, and none for any other key.
C22_EachSelectedFileOnce ==
    [][(ret.op = "none" /\ ret'.op = "upload_directory" /\ ret'.exc = NoExc)
          => \A i \in DOMAIN LocalNames :
               LET name == LocalNames[i]
                   key == ret'.args[1] \o "/" \o name
                   selected == /\ name \in Matching(ret'.args[2])
                               /\ localfs[LocalPath(name)] # Absent
                               /\ store[key] = Absent
               IN  UploadsOf(ret'.log, key) = IF selected THEN 1 ELSE 0]_vars

\* The part of C22 the source keeps: no transfer is started for a key the
\* bucket held at the start, nor for a file no pattern matches, and at least
\* one for every other matching file.
C22_ExistingKeysSkipped ==
    [][(ret.op = "none" /\ ret'.op = "upload_directory" /\ ret'.exc = NoExc)
          => \A i \in DOMAIN LocalNames :
               LET name == LocalNames[i]
                   key == ret'.args[1] \o "/" \o name
                   selected == /\ name \in Matching(ret'.args[2])
                               /\ localfs[LocalPath(name)] # Absent
                               /\ store[key] = Absent
               IN  IF selected THEN UploadsOf(ret'.log, key) >= 1
                   ELSE UploadsOf(ret'.log, key) = 0 /\ store'[key] = store[key]]_vars

\* C25: an upload_file call raises only in its gate (the implicit connect_s3
\* call failed, or the session is read-only), before any transfer is started.
\* Past the gate it returns exactly one of (name, True, s3 path of the key),
\* with the bytes of the file under the key, and (name, exception, None): a
\* missing local file and a failing transfer are returned, not raised.
C25_UploadFileOutcome ==
    ret.op = "upload_file" =>
        LET name == ret.args[1]
            key == ret.args[2] \o "/" \o name
        IN  IF ret.exc # NoExc
            THEN /\ UploadsOf(ret.log, key) = 0
                 /\ \/ ret.exc.type = "PermissionError" /\ _READ_ONLY
                    \/ \E i \in DOMAIN ret.log : ret.log[i].ev = "connect_s3"
            ELSE /\ ~_READ_ONLY
                 /\ ret.val[1] = name
                 /\ \/ /\ ret.val[2] = True
                       /\ ret.val[3] = "s3://" \o _BUCKET.name \o "/" \o key
                       /\ UploadsOf(ret.log, key) = 1
                       /\ store[key] = localfs[LocalPath(name)]
                    \/ /\ ret.val[2] # True /\ ret.val[2].type # "none"
                       /\ ret.val[3] = None
                       /\ \/ ret.val[2].type = "FileNotFoundError"
                             /\ localfs[LocalPath(name)] = Absent
                             /\ UploadsOf(ret.log, key) = 0
                          \/ ret.val[2].type = "ClientError" /\ UploadsOf(ret.log, key) = 1

\* The transfer of an existing file failed: the call returned the exception.
C25_Witness ==
    /\ ret.op = "upload_file" /\ ret.exc = NoExc
    /\ ret.val[2] \in BackendFaults /\ ret.val[3] = None
    /\ UploadsOf(ret.log, ret.args[2] \o "/" \o ret.args[1]) = 1

\* The keys the bucket holds under a prefix, in the order of a listing.
Listed(st, key_prefix) ==
    SelectSeq(KeyOrder, LAMBDA k : st[k] # Absent /\ StartsWith(k, key_prefix))
DeletesOf(log) == SelectSeq(log, LAMBDA e : e.ev = "delete")

\* The listing request of the delete_prefix call that ended was answered.
ListingAnswered ==
    /\ \E i \in DOMAIN ret.log : ret.log[i].ev = "list"
    /\ _BUCKET.name \in Buckets
    /\ FaultOf(ret.args[2], "list") = NoExc

\* C26: a delete_prefix call in a write session whose listing request is
\* answered sends one delete request for each listed key, in listing order,
\* until one fails; when it returns True every listed key was requested and
\* none of them is in the bucket, and with an empty listing it returns True
\* and sends no delete request.  No other key is touched.
C26_DeletePrefix ==
    [][(/\ ret.op = "none" /\ ret'.op = "delete_prefix" /\ ret'.exc = NoExc
        /\ ListingAnswered')
          => LET listing == Listed(store, ret'.args[1])
                 deletes == DeletesOf(ret'.log)
             IN  /\ Len(deletes) <= Len(listing)
                 /\ \A i \in DOMAIN deletes : deletes[i].key = listing[i]
                 /\ ret'.val = True
                      => /\ Len(deletes) = Len(listing)
                         /\ \A i \in DOMAIN listing : store'[listing[i]] = Absent
                 /\ ret'.val # True => deletes # << >> /\ ret'.val.type = "ClientError"
                 /\ listing = << >> => ret'.val = True /\ deletes = << >>
                 /\ \A k \in Keys : k \notin Range(listing) => store'[k] = store[k]]_vars

\* delete_prefix deleted the two objects under the prefix and returned True.
C26_Witness ==
    /\ ret.op = "delete_prefix" /\ ret.val = True
    /\ Len(DeletesOf(ret.log)) = 2
    /\ \A k \in BackendKeys : store[k] = Absent

(***************************************************************************)
(* Properties of connect_s3 (SpecBackend).                                 *)
(***************************************************************************)
\* C27: a connect_s3 call without ACCESS_KEY, without SECRET_KEY or without
\* both raises the RuntimeError of that case, whatever the endpoint key; with
\* both and an endpoint key outside ENDPOINTS it raises ValueError.  The four
\* errors differ, and each is raised before a client or a bucket is created
\* and before the probe: _S3, _BUCKET and _ACTIVE_ENDPOINT are those of the
\* session before, and no request is sent.
C27_ConfigurationErrors ==
    [][(ret.op = "none" /\ ret'.op = "connect_s3")
          => LET env == ret'.args[4]
                 known == ret'.args[2] \in DOMAIN ENDPOINTS
             IN  /\ (~env.access /\ ~env.secret)
                      => ret'.exc = RuntimeError("ACCESS_KEY and SECRET_KEY are missing")
                 /\ (~env.access /\ env.secret)
                      => ret'.exc = RuntimeError("ACCESS_KEY is missing")
                 /\ (env.access /\ ~env.secret)
                      => ret'.exc = RuntimeError("SECRET_KEY is missing")
                 /\ (env.access /\ env.secret /\ ~known)
                      => ret'.exc.type = "ValueError"
                 /\ (env.access /\ env.secret /\ known)
                      => /\ ret'.exc.type # "ValueError"
                         /\ ret'.exc.code \notin { "ACCESS_KEY and SECRET_KEY are missing",
                                                   "ACCESS_KEY is missing",
                                                   "SECRET_KEY is missing" }
                 /\ (~env.access \/ ~env.secret \/ ~known)
                      => /\ UNCHANGED << _S3, _BUCKET, _ACTIVE_ENDPOINT, established, store >>
                         /\ \A i \in DOMAIN ret'.log : ret'.log[i].ev = "connect_s3"]_vars

\* A call without SECRET_KEY and with an unknown endpoint key, in a process
\* that holds a session: the credential error, and the session is kept.
C27_Witness ==
    /\ ret.op = "connect_s3" /\ ret.args[2] \notin DOMAIN ENDPOINTS
    /\ ret.args[4].access /\ ~ret.args[4].secret
    /\ ret.exc = RuntimeError("SECRET_KEY is missing")
    /\ _S3 # None /\ _BUCKET # None

\* The answer of the probe of the connect_s3 call that ended, when the call
\* reached it.
ProbeReached ==
    /\ ret.op = "connect_s3"
    /\ ret.args[4].access /\ ret.args[4].secret /\ ret.args[2] \in DOMAIN ENDPOINTS
    /\ ret.args[4].create = "ok"
AnswerOfProbe == ProbeAnswer(ret.args[1], ret.args[4])

\* C28 (as stated): a connect_s3 call whose probe fails raises the error of
\* the store's error code: invalid access key, invalid secret key, access
\* denied, bucket does not exist, and the unknown-connection error for any
\* other code or failure.
C28_ProbeClassified ==
    (ProbeReached /\ AnswerOfProbe # "ok") => ret.exc = ClassifyProbe(AnswerOfProbe)

\* What the source does: a connect_s3 call whose probe fails raises, and
\* leaves the client and the bucket of the failed attempt in _S3 and _BUCKET.
C28_ProbeFailureRaises ==
    (ProbeReached /\ AnswerOfProbe # "ok")
        => /\ ret.exc # NoExc
           /\ _BUCKET # None /\ _BUCKET.name = ret.args[1]
           /\ established = "unprobed"

(***************************************************************************)
(* Properties of the failures of remote requests (SpecBackend).            *)
(***************************************************************************)
\* The call that ended sent a request for data to the store; it did so in a
\* session whose bucket does not exist, so that every such request failed.
RequestSent ==
    \E i \in DOMAIN ret.log : ret.log[i].ev \in { "list", "upload", "delete", "download" }
EveryRequestFailed == RequestSent /\ _BUCKET # None /\ _BUCKET.name \notin Buckets
NoSuchBucket == ClientError("NoSuchBucket", "")

\* C29: delete_object, delete_prefix and upload_file never raise once they
\* have sent a request: the exception of a failing request is their result
\* (in place of True for the deletions, in the triple for upload_file), and
\* upload_directory collects those of its upload_file calls.  list_objects,
\* bucket_summary and _download_file raise the exception of a failing request,
\* and so does upload_directory for its listing request.
C29_FailureReports ==
    /\ ret.op \in { "delete_object", "delete_prefix", "upload_file" }
         => /\ RequestSent => ret.exc = NoExc
            /\ EveryRequestFailed
                 => IF ret.op = "upload_file"
                    THEN ret.val = << ret.args[1], NoSuchBucket, None >>
                    ELSE ret.val = NoSuchBucket
    /\ (ret.op \in { "delete_object", "delete_prefix" } /\ ret.exc = NoExc /\ ret.val # True)
         => ret.val.type = "ClientError"
    /\ (ret.op \in { "list_objects", "bucket_summary", "_download_file", "upload_directory" }
          /\ EveryRequestFailed)
         => ret.exc = NoSuchBucket /\ ret.val = None
    /\ (ret.op = "upload_directory" /\ ret.exc = NoExc)
         => \A i \in DOMAIN ret.val :
              /\ ret.val[i][2].type = "ClientError"
              /\ UploadsOf(ret.log, ret.args[1] \o "/" \o ret.val[i][1]) >= 1

\* delete_object sent its request, the request failed, and the call returned
\* the exception.
C29_Witness ==
    /\ ret.op = "delete_object" /\ ret.exc = NoExc
    /\ RequestSent
    /\ ret.val = ClientError("AccessDenied", "")

\* C29 (as stated): delete_object and delete_prefix raise the failure of a
\* remote request to their caller.
C29_DeletionsRaise ==
    (ret.op \in { "delete_object", "delete_prefix" } /\ EveryRequestFailed)
        => ret.exc # NoExc

\* C30 (as stated): a call sends a request for data (list, upload, delete,
\* download) only through a client and a bucket whose probe succeeded.
C30_RequestsUseProbedSession ==
    RequestSent => established \in { "read_only", "write" }

\* What the source keeps: a request for data is sent only when _S3 and _BUCKET
\* are set, whether or not the probe of that bucket succeeded.
C30_RequestsUseSomeSession ==
    RequestSent => _S3 # None /\ _BUCKET # None /\ established # "none"

(***************************************************************************)
(* Properties of the thread pool of upload_directory (SpecUpload).         *)
(***************************************************************************)
\* C24: at most max_workers upload_file calls of an upload_directory call are
\* running at any moment, and upload_file calls run in worker threads only
\* between the creation of the pool and the end of the with statement.
C24_BoundedConcurrency ==
    /\ Cardinality(InFlight(batch)) <= batch.max_workers
    /\ InFlight(batch) # {} => batch.pc \in { "pool", "aborting" }

\* Two uploads of a pool of two workers are running at the same time.
C24_Witness ==
    /\ batch.pc = "pool" /\ batch.max_workers = 2
    /\ Cardinality(InFlight(batch)) = 2

\* The upload_directory call in progress got past its gate and its listing,
\* and has ended.
PoolEnded == batch.pc = "done" /\ batch.max_workers > 0
\* The failed uploads among the first n futures, in the order of to_upload.
RECURSIVE FailedAmong(_, _)
FailedAmong(future, n) ==
    IF n = 0 THEN << >>
    ELSE IF future[n].state = "finished" /\ future[n].exc = NoExc /\ future[n].val[2] # True
    THEN Append(FailedAmong(future, n - 1), << future[n].val[1], future[n].val[2] >>)
    ELSE FailedAmong(future, n - 1)

\* C23 (as stated): an upload_directory call that got past its gate returns,
\* whatever the schedule of its workers and whatever connect_s3 calls another
\* thread makes meanwhile: upload_file was started for every file of to_upload,
\* and the list it returns holds exactly the failed uploads, once each.
C23_BatchNeverAborts ==
    PoolEnded
        => /\ batch.exc = NoExc
           /\ \A i \in DOMAIN batch.future : batch.future[i].state = "finished"
           /\ batch.failed = FailedAmong(batch.future, Len(batch.future))

\* What the source keeps: a call whose upload_file calls all returned returns
\* the list of exactly the failed uploads; a call ends with an exception only
\* when the gate of an upload_file call raised in a worker thread.
C23_AbortsOnlyInWorkerGate ==
    PoolEnded
        => /\ \A i \in DOMAIN batch.future : batch.future[i].state \in { "finished", "cancelled" }
           /\ batch.exc = NoExc
                => /\ \A i \in DOMAIN batch.future :
                        batch.future[i].state = "finished" /\ batch.future[i].exc = NoExc
                   /\ batch.failed = FailedAmong(batch.future, Len(batch.future))
           /\ batch.exc # NoExc
                => /\ batch.exc.type = "PermissionError"
                   /\ \E i \in DOMAIN batch.future : batch.future[i].exc = batch.exc

(***************************************************************************)
(* Properties of the byte cache under failing and uncached fetches         *)
(* (SpecLoader).                                                           *)
(***************************************************************************)
\* The call that ended went to the store for a key: it sent the download
\* request, or its implicit connect_s3 call raised before it could.
Contacted(call, key) ==
    \/ Event("download", key) \in Range(call.log)
    \/ /\ call.exc.type = "RuntimeError"
       /\ \E i \in DOMAIN call.log : call.log[i].ev = "connect_s3"

\* C31: a call changes _CACHE only with use_cache=True and only by adding the
\* bytes of an object it has just downloaded; a _download_file call that
\* raises (object not found, failing request, no connection) adds nothing,
\* so that the next fetch of the key goes to the store again; and a
\* _download_file call with use_cache=False leaves _CACHE and _META_CACHE as
\* they are, goes to the store even when the key is cached, and returns the
\* bytes the store holds.
C31_CacheOnlyOnSuccess ==
    [][(ret.op = "none" /\ ret'.op # "none")
          => /\ _CACHE' # _CACHE
                  => /\ ret'.args.use_cache
                     /\ \A k \in DOMAIN _CACHE' \ DOMAIN _CACHE :
                          /\ Event("download", k) \in Range(ret'.log)
                          /\ store[k] # Absent /\ _CACHE'[k] = store[k]
                     /\ \A k \in DOMAIN _CACHE : _CACHE'[k] = _CACHE[k]
             /\ (ret'.op = "_download_file" /\ ret'.exc # NoExc) => _CACHE' = _CACHE
             /\ (ret'.op = "_download_file" /\ ~ret'.args.use_cache)
                  => /\ _CACHE' = _CACHE /\ _META_CACHE' = _META_CACHE
                     /\ Contacted(ret', ret'.args.key)
                     /\ ret'.exc = NoExc => ret'.val = store[ret'.args.key]
             /\ ( /\ prev.op = "_download_file" /\ prev.args.use_cache /\ prev.exc # NoExc
                  /\ ret'.op = "_download_file" /\ ret'.args.key = prev.args.key )
                  => Contacted(ret', ret'.args.key)]_vars

\* A cached fetch failed because the object was not in the bucket; the next
\* fetch of the key, after another client wrote the object, sent its request
\* and stored the bytes.
C31_Witness ==
    /\ prev.op = "_download_file" /\ prev.args.use_cache
    /\ prev.exc = ClientError("404", "Not Found")
    /\ ret.op = "_download_file" /\ ret.args.use_cache /\ ret.args.key = prev.args.key
    /\ ret.exc = NoExc
    /\ Event("download", ret.args.key) \in Range(ret.log)
    /\ ret.args.key \in DOMAIN _CACHE /\ _CACHE[ret.args.key] = ret.val

(***************************************************************************)
(* Properties of the policies of truth loading (SpecTruth).                *)
(***************************************************************************)
\* C32: in every bundle load_truths or truth_for_simulations returns, under
\* "warn", "ignore" and any other on_missing under which the call returns,
\* missing_truth_files is truth_indices_requested minus keys(truth), in
\* ascending order.
C32_MissingFilesAreTheUnloaded ==
    (ret.op \in TruthOps /\ ret.exc = NoExc) =>
        /\ ret.val.missing_truth_files
             = SortedSeq(Range(ret.val.truth_indices_requested) \ DOMAIN ret.val.truth)
        /\ IsAscending(ret.val.missing_truth_files)

\* A bundle returned under on_missing="ignore" for three requested indices,
\* two of which were not found: both are listed, and nothing was warned.
C32_Witness ==
    /\ ret.op = "truth_for_simulations" /\ ret.exc = NoExc
    /\ ret.args.on_missing = "ignore"
    /\ ret.val.truth_indices_requested = << 5, 6, 9 >>
    /\ ret.val.missing_truth_files = << 6, 9 >>
    /\ DOMAIN ret.val.truth = { 5 }

\* The ValueError of an unknown policy value, and the outcome of the call
\* that ends compared with the result r of another call from the same state.
UnknownPolicy(name) == Exc("ValueError", name \o " must be one of", "")
SameOutcome(r) ==
    /\ ret'.exc = r.exc /\ ret'.val = r.val
    /\ ret'.log = r.w.log /\ ret'.warned = r.w.warned /\ ret'.prompted = r.w.prompted
    /\ _CACHE' = r.w._CACHE
\* The policies a call with the policy p is compared with: the valid ones
\* when p is unknown, p itself otherwise.
ValidFor(p) == IF p \in VALID_ON_MISSING THEN { p } ELSE VALID_ON_MISSING
MismatchExists ==
    /\ ret.args.truth_indices # None /\ ~TruthLoadingFails
    /\ SimulationKeys # TruthLoaded

\* C33: the policy strings are validated only when the policy is consulted.
\* load_truths and truth_for_simulations raise the ValueError of an unknown
\* on_missing exactly when a requested truth object was fetched and reported
\* not found; truth_for_simulations raises the ValueError of an unknown
\* on_mismatch exactly when truth_indices was supplied, the loading ended and
\* the simulation keys differ from the loaded indices; a call with an unknown
\* value that raises neither ends as the same call with any valid value.
C33_PoliciesValidatedLazily ==
    [][(ret.op = "none" /\ ret'.op \in TruthOps) =>
         LET a == ret'.args
         IN  /\ ret'.exc = UnknownPolicy("on_missing")
                  <=> (a.on_missing \notin VALID_ON_MISSING /\ ReportedNotFound' # {})
             /\ ret'.op = "load_truths" /\ ret'.exc # UnknownPolicy("on_missing") =>
                  \A p \in ValidFor(a.on_missing) :
                     SameOutcome(load_truths(World, a.indices, DEFAULT_TRUTH_PREFIX,
                                             a.use_cache, p, a.env, a.faults))
             /\ ret'.op = "truth_for_simulations" =>
                  /\ ret'.exc = UnknownPolicy("on_mismatch")
                       <=> (a.on_mismatch \notin VALID_ON_MISMATCH /\ MismatchExists')
                  /\ ret'.exc \notin { UnknownPolicy("on_missing"), UnknownPolicy("on_mismatch") } =>
                       \A p \in ValidFor(a.on_missing), q \in ValidFor(a.on_mismatch) :
                          SameOutcome(truth_for_simulations(World, a.simulations,
                                          a.truth_indices, DEFAULT_TRUTH_PREFIX, a.use_cache,
                                          p, q, a.prompt, a.env, a.faults, a.terminal))]_vars

\* truth_for_simulations with unknown values for both policies returned a
\* bundle: the explicit truth_indices equal the simulation keys and every
\* object was found.
C33_Witness ==
    /\ ret.op = "truth_for_simulations" /\ ret.exc = NoExc
    /\ ret.args.on_missing = "skip" /\ ret.args.on_mismatch = "skip"
    /\ ret.args.truth_indices # None
    /\ ret.log # << >>
    /\ DOMAIN ret.val.truth = SimulationKeys
    /\ ret.val.missing_truth_files = << >>

MissingFileLines(warnings) ==
    { j \in DOMAIN warnings : warnings[j].msg = "Truth file not found for index" }

\* C34: in truth_for_simulations with explicit truth_indices the missing-file
\* policy is applied before the mismatch policy.  The warnings of missing
\* files, emitted and in the bundle, come in ascending order of their indices
\* and before every mismatch diagnostic; and when an object is reported not
\* found under on_missing="error" the call raises FileNotFoundError without
\* any mismatch diagnostic, prompt or error, whatever on_mismatch is.
C34_MissingBeforeMismatch ==
    (ret.op = "truth_for_simulations" /\ ret.args.truth_indices # None) =>
        LET Ordered(warnings) ==
                \A j, k \in DOMAIN warnings :
                   /\ (j \in MissingFileLines(warnings) /\ k \in MismatchDiagnostics(warnings))
                        => j < k
                   /\ (j < k /\ { j, k } \subseteq MissingFileLines(warnings))
                        => warnings[j].idx < warnings[k].idx
        IN  /\ Ordered(ret.warned)
            /\ ret.exc = NoExc => Ordered(ret.val.warnings)
            /\ (ret.args.on_missing = "error" /\ ReportedNotFound # {}) =>
                  /\ ret.exc.type = "FileNotFoundError"
                  /\ MismatchDiagnostics(ret.warned) = {}
                  /\ ~ret.prompted

\* Explicit truth_indices 5, 6, 9 of which 6 and 9 are not found, under warn
\* for both policies: the bundle's warnings name 6, then 9, then carry the
\* mismatch diagnostic.
C34_Witness ==
    /\ ret.op = "truth_for_simulations" /\ ret.exc = NoExc
    /\ ret.args.truth_indices # None
    /\ ret.args.on_missing = "warn" /\ ret.args.on_mismatch = "warn"
    /\ Len(ret.val.warnings) = 3
    /\ MissingFileLines(ret.val.warnings) = { 1, 2 }
    /\ ret.val.warnings[1].idx = 6 /\ ret.val.warnings[2].idx = 9
    /\ MismatchLines(ret.val.warnings) = { 3 }

\* A truth_for_simulations call with explicit truth_indices that normalize to
\* the keys of the simulations, and the call in automatic mode with the same
\* other arguments from the same state.
ExplicitOnKeys ==
    /\ ret.op = "truth_for_simulations" /\ ret.args.truth_indices # None
    /\ IsMapping(ret.args.simulations)
    /\ \A k \in DOMAIN ret.args.simulations.items : ConvertsToInt(ret.args.simulations.items[k])
    /\ \A k \in DOMAIN ret.args.truth_indices.items :
          ConvertsToInt(ret.args.truth_indices.items[k])
    /\ TruthRequested = SimulationKeys
Automatic(a) ==
    truth_for_simulations(World, a.simulations, None, DEFAULT_TRUTH_PREFIX, a.use_cache,
                          a.on_missing, a.on_mismatch, a.prompt, a.env, a.faults, a.terminal)

\* C35: truth_for_simulations with explicit truth_indices equal to the
\* simulation keys returns only if automatic mode returns, and then with the
\* same truth, missing_truth_files, missing_for_simulations and extra_truth.
\* The two calls differ in outcome exactly when automatic mode returns a
\* bundle with a missing truth file (the loading went through: on_missing is
\* warn or ignore) and on_mismatch is not ignore.  Then the explicit call
\* under warn emits one mismatch diagnostic after the warnings of automatic
\* mode, and records it in its bundle unless the prompt aborts the call;
\* under error it raises the ValueError of the diagnostic; under an unknown
\* value the ValueError of the policy.
C35_ExplicitOnKeysVersusAutomatic ==
    [][(ret.op = "none" /\ ExplicitOnKeys') =>
         LET a == ret'.args
             r == Automatic(a)
             missing == r.exc = NoExc /\ r.val.missing_truth_files # << >>
             n == Len(r.w.warned)
         IN  /\ ret'.exc = NoExc =>
                  /\ r.exc = NoExc
                  /\ ret'.val.truth = r.val.truth
                  /\ ret'.val.missing_truth_files = r.val.missing_truth_files
                  /\ ret'.val.missing_for_simulations = r.val.missing_for_simulations
                  /\ ret'.val.extra_truth = r.val.extra_truth
             /\ ~SameOutcome(r) <=> (missing /\ a.on_mismatch # "ignore")
             /\ (missing /\ a.on_mismatch = "warn") =>
                  /\ Len(ret'.warned) > n /\ SubSeq(ret'.warned, 1, n) = r.w.warned
                  /\ MismatchLines(ret'.warned) = { n + 1 }
                  /\ ret'.log = r.w.log
                  /\ IF ret'.exc = NoExc
                     THEN ret'.val.warnings = r.val.warnings \o SubSeq(ret'.warned, n + 1, Len(ret'.warned))
                     ELSE /\ ret'.prompted
                          /\ ret'.exc = Exc("RuntimeError", "Aborted by user due to truth/simulation mismatch.", "")
             /\ (missing /\ a.on_mismatch = "error") =>
                  /\ ret'.exc.type = "ValueError" /\ "msg" \in DOMAIN ret'.exc
                  /\ ret'.exc.msg.msg = "Truth/Simulation mismatch detected."
                  /\ ret'.warned = r.w.warned /\ ret'.log = r.w.log
             /\ (missing /\ a.on_mismatch \notin VALID_ON_MISMATCH) =>
                  ret'.exc = UnknownPolicy("on_mismatch")]_vars

\* Explicit truth_indices 7, 6, 5 for the simulations 5, 6, 7 under warn for
\* both policies: the bundle lists the missing file of 7 and carries the
\* mismatch diagnostic that automatic mode does not record.
C35_Witness ==
    /\ ExplicitOnKeys /\ ret.exc = NoExc
    /\ ret.args.on_missing = "warn" /\ ret.args.on_mismatch = "warn"
    /\ SimulationKeys = { 5, 6, 7 }
    /\ 7 \in Range(ret.val.missing_truth_files)
    /\ ret.val.missing_for_simulations = ret.val.missing_truth_files
    /\ MismatchLines(ret.val.warnings) # {}

\* C35 (as stated): the two calls differ in outcome exactly when some truth
\* file is missing and on_mismatch is not ignore.
C35_DifferWheneverFileMissing ==
    [][(ret.op = "none" /\ ExplicitOnKeys') =>
         (~SameOutcome(Automatic(ret'.args))
            <=> (ReportedNotFound' # {} /\ ret'.args.on_mismatch # "ignore"))]_vars

(***************************************************************************)
(* Properties of _META_CACHE under schema errors (SpecSchema).             *)
(***************************************************************************)
\* The metadata loader of an operation name, and the world w with other
\* bytes in the store and in the local file of a source.
LoaderOf(op, w, source, use_cache, env, faults) ==
    IF op = "_load_acic22_metadata" THEN _load_acic22_metadata(w, source, use_cache, env, faults)
    ELSE _load_dgp_info(w, source, use_cache, env, faults)
Elsewhere(w, source, remote, local) ==
    [w EXCEPT !.store[source] = remote, !.localfs[source] = local]
Documents == JsonPayloads \cup { "frame_a", Absent }

\* C36: a document is in _META_CACHE once it is parsed, before it is
\* validated.  A _load_acic22_metadata or _load_dgp_info call with
\* use_cache=True that raises a schema error leaves the document cached under
\* its source, and a call with the same source that follows it raises the
\* same error without a request to the store and whatever the store and the
\* local file of the source hold, with or without credentials; and every
\* call that finds its source cached sends no request and leaves the caches
\* as they are.
C36_CachedBeforeValidated ==
    [][(ret.op = "none" /\ ret'.op \in { "_load_acic22_metadata", "_load_dgp_info" }
          /\ ret'.args.use_cache) =>
         LET source == ret'.args.source
         IN  /\ ret'.exc.type = "ValueError" =>
                  /\ source \in DOMAIN _META_CACHE'
                  /\ source \notin DOMAIN _META_CACHE =>
                        /\ ret'.log # << >>
                        /\ _META_CACHE'[source] = JsonLoads(store[source])
                  /\ \A remote \in Documents, local \in { Absent, "meta_1", "dgp_1" }, env \in { GoodEnv, ConnectEnv(FALSE, FALSE, "ok", "ok") },
                        faults \in FaultSets({ source }, LoaderFaults) :
                        LET again == LoaderOf(ret'.op, Elsewhere(World', source, remote, local),
                                              source, TRUE, env, faults)
                        IN  /\ again.exc = ret'.exc
                            /\ again.w.log = << >>
                            /\ again.w._META_CACHE = _META_CACHE'
             /\ source \in DOMAIN _META_CACHE =>
                  /\ ret'.log = << >>
                  /\ _META_CACHE' = _META_CACHE /\ _CACHE' = _CACHE]_vars

\* A _load_dgp_info call raised the schema error of a cached document that
\* has no 'dgps', without a request, while the store holds a valid document.
C36_Witness ==
    /\ ret.op = "_load_dgp_info" /\ ret.args.use_cache
    /\ ret.exc = Exc("ValueError", "DGP info JSON must be a dict containing 'dgps'", "")
    /\ ret.log = << >>
    /\ ret.args.source \in DOMAIN _META_CACHE
    /\ store[ret.args.source] = "dgp_1"

=============================================================================
